---- MODULE Spec2Model ----
(***************************************************************************)
(* Raven package manager: the Resolver (Reactor::visit), the install       *)
(* pipeline (Reactor::execute), and the Transaction Manager                *)
(* (install_package / remove_package) over the metadata store and the      *)
(* host filesystem.                                                        *)
(*                                                                         *)
(* Strings that the code parses are modelled by their tokens:              *)
(*   - a version string "1.2.0" is the sequence <<1, 2, 0>> of its dotted  *)
(*     numeric components ("1.2" is <<1, 2>>, which is not a strict        *)
(*     semantic version);                                                  *)
(*   - a requirement string ">=2.0.0" is [op |-> ">=", v |-> <<2, 0, 0>>]; *)
(*   - a dependency string "NAME" or "NAME REQ" (one space, the recipe     *)
(*     format) is <<NAME>> or <<NAME, REQ>>, i.e. what splitting at the    *)
(*     separator yields.                                                   *)
(***************************************************************************)
EXTENDS Integers, Sequences, FiniteSets, Bags, TLC

VARIABLES
    recipes,        \* the RecipeSet of the running command: a function name -> Recipe
    targets,        \* the target list of the running command
    pc,             \* position of the driver / Reactor::execute
    cmds,           \* number of commands run so far
    build_order,    \* Reactor::execute: build_order
    idx,            \* Reactor::execute: position in build_order (1-based)
    artifact,       \* Reactor::execute: artifact tree returned by Builder::build
    building,       \* packages whose Builder::build is in progress
    result,         \* result of the last finished command / resolution
    run_installed,  \* names committed by install_package in the current execute run
    run_built,      \* sequence of names whose build was started in the current run
    packages,       \* table packages: bag of rows [name, version, hash]
    package_files,  \* table package_files: bag of rows [package_name, filepath]
    dependencies,   \* table dependencies: bag of rows [package, depends_on]
    host,           \* host filesystem: path -> content (the producing package) or NoFile
    host_dirs,      \* host filesystem: the directories that exist
    staging,        \* staging root: stage directory key -> set of tree entries
    last,           \* the last Transaction Manager call and how it ended
    installed_with, \* history: name -> the dependency names of the recipe it was last
                    \* installed with, {} once removed
    cmd,            \* the command the driver runs: "install", "remove", "upgrade"
    source,         \* what the server does at each download attempt
    fetch_hash,     \* download_with_retry: hash, the expected digest
    attempt,        \* download_with_retry: attempt
    waits,          \* the seconds download_with_retry has slept, in order
    fetch_path,     \* download_with_retry: path, as the package whose source.tar it is
    tarball,        \* package -> the file <pkg>-build/source.tar: its chunks, or NoTarball
    in_flight,      \* the writes handed to the blocking pool and not yet carried out
    got,            \* download_inner: the chunks of the attempt handed to write_all
    fetch_result,   \* what download_with_retry returned, Pending before
    script_runs,    \* history: the packages whose build script this command
                    \* started, in order
    sb_env,         \* ScriptSandbox::run: what the host has and what the calls meet
    sb_pc,          \* ScriptSandbox::run: the position of the child, then of the parent
    sb_i,           \* ScriptSandbox::run: the position in bind_dirs
    sb_steps,       \* history: the calls of the child that succeeded, in order
    sb_root,        \* the root directory of the child: "host" or "jail"
    sb_cwd,         \* the working directory of the child
    sb_result       \* what ScriptSandbox::run returned, Pending before

vars == <<recipes, targets, pc, cmds, build_order, idx, artifact, building, result,
          run_installed, run_built, packages, package_files, dependencies,
          host, host_dirs, staging, last, installed_with,
          cmd, source, fetch_hash, fetch_path, attempt, waits, tarball, in_flight,
          got, fetch_result,
          script_runs, sb_env, sb_pc, sb_i, sb_steps, sb_root, sb_cwd, sb_result>>

db_vars == <<packages, package_files, dependencies>>
fs_vars == <<host, host_dirs, staging>>
sandbox_vars == <<sb_env, sb_pc, sb_i, sb_steps, sb_root, sb_cwd, sb_result>>
fetch_vars == <<source, fetch_hash, fetch_path, attempt, waits, tarball, in_flight,
                got, fetch_result>>
exec_vars == <<recipes, targets, pc, cmds, build_order, idx, artifact, building, result,
               run_installed, run_built, cmd, fetch_vars, script_runs, sandbox_vars>>

----------------------------------------------------------------------------
(* Bounds of the model *)

Names == {"A", "B", "C"}

\* longest target list of a command
MaxTargets == 2

\* most dependency entries in a whole recipe set
MaxEdges == 3

Versions == {<<1, 0, 0>>, <<2, 0, 0>>}

\* the requirement strings of the input families: ">=2.0.0"
ReqStrs == {[op |-> ">=", v |-> <<2, 0, 0>>]}

----------------------------------------------------------------------------
(* Errors: RavenError, core.rs *)

Ok == [kind |-> "Ok"]

DependencyError(msg, name) == [kind |-> "DependencyError", msg |-> msg, name |-> name]

IoError == [kind |-> "IoError"]

DbError == [kind |-> "DbError"]

NetworkError == [kind |-> "NetworkError"]

HashMismatch == [kind |-> "HashMismatch"]

ParseError == [kind |-> "ParseError"]

\* the process ends in a panic: nothing is returned
Panic == [kind |-> "Panic"]

----------------------------------------------------------------------------
(* semver: Version::parse, VersionReq::parse, VersionReq::matches *)

\* Version::parse: exactly three numeric components
VersionParseOk(s) == Len(s) = 3

\* lexicographic order of two parsed versions: a > b
VersionGreater(a, b) ==
    \/ a[1] > b[1]
    \/ a[1] = b[1] /\ a[2] > b[2]
    \/ a[1] = b[1] /\ a[2] = b[2] /\ a[3] > b[3]

\* VersionReq::parse: "*" or an operator with one to three components
VersionReqParseOk(r) ==
    \/ r.op = "*" /\ Len(r.v) = 0
    \/ r.op \in {">=", "^", "="} /\ Len(r.v) \in 1..3

\* the comparator's components, the absent ones read as 0
Part(r, i) == IF i <= Len(r.v) THEN r.v[i] ELSE 0

\* semver matches_exact: the given components are equal
MatchesExact(r, ver) == \A i \in 1..Len(r.v) : ver[i] = r.v[i]

\* semver matches_greater: ver is above the comparator on a given component
MatchesGreater(r, ver) ==
    \E i \in 1..Len(r.v) :
        /\ ver[i] > r.v[i]
        /\ \A j \in 1..(i - 1) : ver[j] = r.v[j]

\* semver matches_caret
MatchesCaret(r, ver) ==
    /\ ver[1] = r.v[1]
    /\ CASE Len(r.v) = 1 -> TRUE
         [] Len(r.v) = 2 -> IF r.v[1] > 0 THEN ver[2] >= r.v[2] ELSE ver[2] = r.v[2]
         [] OTHER ->
              IF r.v[1] > 0
              THEN ver[2] > r.v[2] \/ (ver[2] = r.v[2] /\ ver[3] >= r.v[3])
              ELSE IF r.v[2] > 0
                   THEN ver[2] = r.v[2] /\ ver[3] >= r.v[3]
                   ELSE ver[2] = r.v[2] /\ ver[3] = r.v[3]

\* VersionReq::matches on a parsed requirement and a parsed version
matches(r, ver) ==
    CASE r.op = "*" -> TRUE
      [] r.op = ">=" -> MatchesExact(r, ver) \/ MatchesGreater(r, ver)
      [] r.op = "=" -> MatchesExact(r, ver)
      [] r.op = "^" -> MatchesCaret(r, ver)
      [] OTHER -> FALSE

Star == [op |-> "*", v |-> <<>>]

----------------------------------------------------------------------------
(* Recipe::parse_dependencies, core.rs *)

\* one dependency string: parts[0] is the name, parts[1] (default "*") the requirement
DepName(dep_str) == dep_str[1]

DepReqStr(dep_str) == IF Len(dep_str) > 1 THEN dep_str[2] ELSE Star

\* index of the first dependency string whose requirement does not parse, 0 if none
RECURSIVE FirstBadReq(_, _)
FirstBadReq(deps, i) ==
    IF i > Len(deps) THEN 0
    ELSE IF ~VersionReqParseOk(DepReqStr(deps[i])) THEN i
    ELSE FirstBadReq(deps, i + 1)

\* parse_dependencies yielding the requirements in reverse order
parse_dependencies_reversed(recipe) ==
    LET bad == FirstBadReq(recipe.dependencies, 1)
        n == Len(recipe.dependencies)
    IN IF bad > 0
       THEN [err |-> DependencyError("Invalid requirement",
                                     DepName(recipe.dependencies[bad])),
             deps |-> <<>>]
       ELSE [err |-> Ok,
             deps |-> [i \in 1..n |->
                          [name |-> DepName(recipe.dependencies[n + 1 - i]),
                           req |-> DepReqStr(recipe.dependencies[n + 1 - i])]]]

\* Result<Vec<DependencyReq>, RavenError>
parse_dependencies(recipe) ==
    LET bad == FirstBadReq(recipe.dependencies, 1) IN
    IF bad > 0
    THEN [err |-> DependencyError("Invalid requirement", DepName(recipe.dependencies[bad])),
          deps |-> <<>>]
    ELSE [err |-> Ok,
          deps |-> [i \in 1..Len(recipe.dependencies) |->
                       [name |-> DepName(recipe.dependencies[i]),
                        req |-> DepReqStr(recipe.dependencies[i])]]]

----------------------------------------------------------------------------
(* Resolver: Reactor::visit, reactor.rs *)

\* the traversal state execute hands to visit, and the Result visit returns
ResolveInit == [visited |-> {}, temp_visited |-> {}, order |-> <<>>, err |-> Ok]

RECURSIVE visit(_, _, _)
RECURSIVE visit_deps(_, _, _, _)

\* visit_deps that checks no requirement of a dependency already marked done
visit_deps_skip_done(deps, i, rs, st) ==
    IF i > Len(deps) THEN st
    ELSE
        LET dep_req == deps[i] IN
        IF dep_req.name \in st.visited THEN visit_deps(deps, i + 1, rs, st)
        ELSE IF dep_req.name \notin DOMAIN rs
        THEN [st EXCEPT !.err = DependencyError("Missing dependency", dep_req.name)]
        ELSE
            LET candidate == rs[dep_req.name] IN
            IF ~VersionParseOk(candidate.version)
            THEN [st EXCEPT !.err = DependencyError("Invalid semver", candidate.name)]
            ELSE IF ~matches(dep_req.req, candidate.version)
            THEN [st EXCEPT !.err = DependencyError("Version mismatch", dep_req.name)]
            ELSE
                LET st1 == visit(dep_req.name, rs, st) IN
                IF st1.err # Ok THEN st1 ELSE visit_deps(deps, i + 1, rs, st1)

\* the loop `for dep_req in deps` from its i-th element on
visit_deps(deps, i, rs, st) ==
    IF i > Len(deps) THEN st
    ELSE
        LET dep_req == deps[i] IN
        IF dep_req.name \notin DOMAIN rs
        THEN [st EXCEPT !.err = DependencyError("Missing dependency", dep_req.name)]
        ELSE
            LET candidate == rs[dep_req.name] IN
            IF ~VersionParseOk(candidate.version)
            THEN [st EXCEPT !.err = DependencyError("Invalid semver", candidate.name)]
            ELSE IF ~matches(dep_req.req, candidate.version)
            THEN [st EXCEPT !.err = DependencyError("Version mismatch", dep_req.name)]
            ELSE
                LET st1 == visit(dep_req.name, rs, st) IN
                IF st1.err # Ok THEN st1 ELSE visit_deps(deps, i + 1, rs, st1)

\* visit that appends the node to the order before it visits the dependencies
visit_preorder(node, rs, st) ==
    IF node \in st.temp_visited
    THEN [st EXCEPT !.err = DependencyError("Circular dependency", node)]
    ELSE IF node \in st.visited THEN st
    ELSE
        LET st1 == [st EXCEPT !.temp_visited = @ \cup {node},
                              !.order = Append(@, node)] IN
        IF node \notin DOMAIN rs
        THEN [st1 EXCEPT !.err = DependencyError("Package not found", node)]
        ELSE
            LET parsed == parse_dependencies(rs[node]) IN
            IF parsed.err # Ok THEN [st1 EXCEPT !.err = parsed.err]
            ELSE
                LET st2 == visit_deps(parsed.deps, 1, rs, st1) IN
                IF st2.err # Ok THEN st2
                ELSE [st2 EXCEPT !.temp_visited = @ \ {node},
                                 !.visited = @ \cup {node}]

\* visit without the check of temp_visited: a node on the stack counts as done
visit_no_cycle_check(node, rs, st) ==
    IF node \in st.temp_visited \/ node \in st.visited THEN st
    ELSE
        LET st1 == [st EXCEPT !.temp_visited = @ \cup {node}] IN
        IF node \notin DOMAIN rs
        THEN [st1 EXCEPT !.err = DependencyError("Package not found", node)]
        ELSE
            LET parsed == parse_dependencies(rs[node]) IN
            IF parsed.err # Ok THEN [st1 EXCEPT !.err = parsed.err]
            ELSE
                LET st2 == visit_deps(parsed.deps, 1, rs, st1) IN
                IF st2.err # Ok THEN st2
                ELSE [st2 EXCEPT !.temp_visited = @ \ {node},
                                 !.visited = @ \cup {node},
                                 !.order = Append(@, node)]

visit(node, rs, st) ==
    IF node \in st.temp_visited
    THEN [st EXCEPT !.err = DependencyError("Circular dependency", node)]
    ELSE IF node \in st.visited THEN st
    ELSE
        LET st1 == [st EXCEPT !.temp_visited = @ \cup {node}] IN
        IF node \notin DOMAIN rs
        THEN [st1 EXCEPT !.err = DependencyError("Package not found", node)]
        ELSE
            LET parsed == parse_dependencies(rs[node]) IN
            IF parsed.err # Ok THEN [st1 EXCEPT !.err = parsed.err]
            ELSE
                LET st2 == visit_deps(parsed.deps, 1, rs, st1) IN
                IF st2.err # Ok THEN st2
                ELSE [st2 EXCEPT !.temp_visited = @ \ {node},
                                 !.visited = @ \cup {node},
                                 !.order = Append(@, node)]

\* Reactor::execute, part 1: the loop `for target in targets` from its i-th element on
RECURSIVE resolve_from(_, _, _, _)
resolve_from(tgts, i, rs, st) ==
    IF i > Len(tgts) THEN st
    ELSE
        LET st1 == visit(tgts[i], rs, st) IN
        IF st1.err # Ok THEN st1 ELSE resolve_from(tgts, i + 1, rs, st1)

\* resolve that looks at the first target only before the builds start
resolve_first_target(tgts, rs) ==
    resolve_from(SubSeq(tgts, 1, IF Len(tgts) > 0 THEN 1 ELSE 0), 1, rs, ResolveInit)

resolve(tgts, rs) == resolve_from(tgts, 1, rs, ResolveInit)

----------------------------------------------------------------------------
(* Paths and artifact trees *)

\* a relative path "opt/p/x" is the sequence of its components
RelPaths == {<<"opt", "p", "x">>, <<"opt", "p", "y">>}

Kinds == {"file", "symlink"}

\* Path::new("/").join(relative)
Dest(relative) == <<"/">> \o relative

\* Path::parent
Parent(path) == SubSeq(path, 1, Len(path) - 1)

\* the directories create_dir_all(parent of path) makes sure of
Ancestors(path) == {SubSeq(path, 1, i) : i \in 1..(Len(path) - 1)}

AbsPaths == {Dest(p) : p \in RelPaths}

NoFile == "-"

\* no file at the download path
NoTarball == <<"-">>

\* download_with_retry has not returned
Pending == [kind |-> "Pending"]

\* an artifact tree: the entries under <pkg>/out, at most one per path
Trees ==
    {t \in SUBSET [path : RelPaths, kind : Kinds] :
        \A e1, e2 \in t : e1.path = e2.path => e1 = e2}

\* the regular files of a tree, which the walk of install_package places
RegularFiles(t) == {e.path : e \in {x \in t : x.kind = "file"}}

\* the orders in which WalkDir can yield the regular files of a tree
Walks(t) ==
    {w \in [1..Cardinality(RegularFiles(t)) -> RegularFiles(t)] :
        \A i, j \in DOMAIN w : w[i] = w[j] => i = j}

\* <staging>/<name>_<version>
StageKey(recipe) == <<recipe.name, recipe.version>>

\* what the staging directory of the recipe holds before the call, {} when absent
StaleIn(stg, recipe) ==
    IF StageKey(recipe) \in DOMAIN stg THEN stg[StageKey(recipe)] ELSE {}

\* a staging step that copies the artifact over what the directory already holds
stage_tree_keep_old(old, t) == t \cup {e \in old : \A x \in t : x.path # e.path}

\* remove_dir_all(pkg_stage), create_dir_all(pkg_stage), cp -a <artifact>/. <pkg_stage>/:
\* the directory holds a copy of the artifact tree and nothing of what it held before
stage_tree(old, t) == t

\* the staging directory the walk of install_package goes over
Staged(stg, recipe, t) == stage_tree(StaleIn(stg, recipe), t)

----------------------------------------------------------------------------
(* The inputs of a command: recipe sets and target lists *)

\* the recipe hash of a version of the input family
HashOf(version) == IF version = <<1, 0, 0>> THEN "h1" ELSE "h2"

DepStrs == {<<n>> : n \in Names} \cup {<<n, r>> : n \in Names, r \in ReqStrs}

SeqsUpTo(S, n) == UNION {[1..k -> S] : k \in 0..n}

\* what the install commands of the recipes of the input family produce under DESTDIR:
\* one file for C, nothing for A and B
OutTree(n) ==
    IF n = "C" THEN {[path |-> <<"opt", "p", "x">>, kind |-> "file"]} ELSE {}

\* a Recipe; install_commands stands for the tree the commands produce
Recipe(n, version, deps) ==
    [name |-> n, version |-> version, dependencies |-> deps,
     sha256_sum |-> HashOf(version), install_commands |-> OutTree(n)]

\* the versions of the recipe files of the Resolver's input family: B is at 2.0.0, A and
\* C are at 1.0.0, so that a requirement ">=2.0.0" is matched on an edge to B and is
\* not matched on an edge to A or to C
VersionsOf(n) == IF n = "B" THEN {<<2, 0, 0>>} ELSE {<<1, 0, 0>>}

\* every recipe map over the names S with at most e dependency entries in all
RECURSIVE RecipeSetsOver(_, _)
RecipeSetsOver(S, e) ==
    IF S = {} THEN {<<>>}
    ELSE
        LET n == CHOOSE x \in S : TRUE
            without == RecipeSetsOver(S \ {n}, e)
            with(k) ==
                LET rest == RecipeSetsOver(S \ {n}, e - k) IN
                {(n :> Recipe(n, c[1], c[2])) @@ f :
                    c \in VersionsOf(n) \X [1..k -> DepStrs], f \in rest}
        IN without \cup UNION {with(k) : k \in 0..e}

TargetLists == SeqsUpTo(Names, MaxTargets)

----------------------------------------------------------------------------
(* Metadata store: the SQL statements of core.rs; a table is a bag of rows *)

EmptyTable == EmptyBag

Rows(tbl) == BagToSet(tbl)

\* the table cut down to the rows in keep, with their multiplicity
Where(tbl, keep) == [r \in Rows(tbl) \cap keep |-> tbl[r]]

\* an INSERT INTO package_files that replaces nothing
upsert_package_file_append(tbl, row) == tbl (+) SetToBag({row})

\* INSERT OR REPLACE INTO package_files: PRIMARY KEY (package_name, filepath)
upsert_package_file(tbl, row) ==
    Where(tbl, {r \in Rows(tbl) : ~(r.package_name = row.package_name
                                     /\ r.filepath = row.filepath)})
    (+) SetToBag({row})

\* INSERT OR IGNORE INTO dependencies: PRIMARY KEY (package, depends_on)
insert_ignore_dependency(tbl, row) ==
    IF \E r \in Rows(tbl) : r.package = row.package /\ r.depends_on = row.depends_on
    THEN tbl
    ELSE tbl (+) SetToBag({row})

\* INSERT OR REPLACE INTO packages: name PRIMARY KEY
upsert_package(tbl, row) ==
    Where(tbl, {r \in Rows(tbl) : r.name # row.name}) (+) SetToBag({row})

\* the SELECT with the columns exchanged: WHERE package = ?
select_dependents_by_package(tbl, name) ==
    {r.depends_on : r \in {x \in Rows(tbl) : x.package = name}}

\* SELECT package FROM dependencies WHERE depends_on = ?
select_dependents(tbl, name) ==
    {r.package : r \in {x \in Rows(tbl) : x.depends_on = name}}

\* SELECT filepath FROM package_files WHERE package_name = ?
select_files(tbl, name) ==
    {r.filepath : r \in {x \in Rows(tbl) : x.package_name = name}}

\* statements that take effect one by one, with no transaction around them
tx_end_autocommit(before, work, committed) == work

\* the end of a transaction: commit keeps the work, a dropped transaction rolls back
tx_end(before, work, committed) == IF committed THEN work ELSE before

----------------------------------------------------------------------------
(* TransactionManager::install_package, core.rs *)

\* what a failed copy of a file leaves at its destination: the file that was there
\* is deleted ("absent"), its deletion failed as well ("kept"), or the copy wrote the
\* destination before it failed ("written")
CopyLeaves == {"absent", "kept", "written"}

\* what a remove_dir_all that fails leaves of a directory holding c: it deletes entry
\* by entry, so any part of c can be gone when it stops
Remains(c) == SUBSET c

\* what the remove_dir_all(pkg_stage) at the start of install_package can fail with:
\* it is only called on a directory that exists
Unstaged(stg, recipe) ==
    IF StageKey(recipe) \in DOMAIN stg THEN Remains(stg[StageKey(recipe)]) ELSE {}

\* the directories a create_dir_all(parent of dest) that fails has made already
PartialDirs(dest) == {{SubSeq(dest, 1, i) : i \in 1..j} : j \in 1..(Len(dest) - 2)}

\* the outcomes of a call of install_package for the artifact t and the walk: where it
\* fails, and what the calls with a dropped result do. "unstage" is remove_dir_all of
\* the old staging directory, which leaves rest (old: the values of rest); "stage" is
\* create_dir_all; "mkdir" is create_dir_all(parent), which has made dirs; "cleanup" is
\* the remove_dir_all after the commit, whose failure is dropped and which leaves rest.
\* left: the moved files of the walk that are still in the staging directory, placed
\* by the copy fallback, whose remove_file(src) failed with its result dropped
InstallFaults(old, t, walk, m) ==
    {[at |-> "none"], [at |-> "begin"], [at |-> "stage"]}
    \cup {[at |-> "unstage", rest |-> r] : r \in old}
    \cup {[at |-> "cp", copied |-> c] : c \in SUBSET t}
    \cup UNION {{[at |-> "mkdir", k |-> k, dirs |-> d, left |-> l] :
                     d \in PartialDirs(Dest(walk[k])), l \in SUBSET (1..(k - 1))}
                   : k \in 1..Len(walk)}
    \cup UNION {{[at |-> "copy", k |-> k, dest |-> d, left |-> l] :
                     d \in CopyLeaves, l \in SUBSET (1..(k - 1))} : k \in 1..Len(walk)}
    \cup UNION {{[at |-> "sql_file", k |-> k, left |-> l] : l \in SUBSET (1..k)}
                   : k \in 1..Len(walk)}
    \cup {[at |-> "sql_dep", k |-> k, left |-> l] :
              k \in 1..m, l \in SUBSET (1..Len(walk))}
    \cup {[at |-> a, left |-> l] : a \in {"sql_pkg", "commit"},
                                   l \in SUBSET (1..Len(walk))}
    \cup {[at |-> "cleanup", rest |-> r] : r \in Remains(t)}

\* the error install_package returns for a fault
InstallError(f) ==
    CASE f.at \in {"none", "cleanup"} -> Ok
      [] f.at \in {"begin", "sql_file", "sql_dep", "sql_pkg", "commit"} -> DbError
      [] OTHER -> IoError

\* how many files of the walk were moved onto the host before the fault
FilesMoved(f, n) ==
    CASE f.at \in {"begin", "unstage", "stage", "cp"} -> 0
      [] f.at \in {"mkdir", "copy"} -> f.k - 1
      [] f.at = "sql_file" -> f.k
      [] OTHER -> n

\* how many package_files rows the transaction holds at the fault
FilesRecorded(f, n) ==
    CASE f.at \in {"begin", "unstage", "stage", "cp"} -> 0
      [] f.at \in {"mkdir", "copy", "sql_file"} -> f.k - 1
      [] OTHER -> n

\* how many dependencies rows the transaction holds at the fault
DepsRecorded(f, m) ==
    CASE f.at \in {"begin", "unstage", "stage", "cp", "mkdir", "copy", "sql_file"} -> 0
      [] f.at = "sql_dep" -> f.k - 1
      [] OTHER -> m

\* a walk loop that leaves a file already at the destination in place
RECURSIVE place_files_keep_existing(_, _, _, _)
place_files_keep_existing(fs, name, walk, k) ==
    IF k = 0 THEN fs
    ELSE
        LET prev == place_files_keep_existing(fs, name, walk, k - 1)
            dest == Dest(walk[k])
        IN [host |-> IF prev.host[dest] # NoFile THEN prev.host
                     ELSE [prev.host EXCEPT ![dest] = name],
            host_dirs |-> prev.host_dirs \cup Ancestors(dest)]

\* the walk loop on the host: the first k files of the walk moved to "/" + relative
RECURSIVE place_files(_, _, _, _)
place_files(fs, name, walk, k) ==
    IF k = 0 THEN fs
    ELSE
        LET prev == place_files(fs, name, walk, k - 1)
            dest == Dest(walk[k])
        IN [host |-> [prev.host EXCEPT ![dest] = name],
            host_dirs |-> prev.host_dirs \cup Ancestors(dest)]

\* the walk loop in the transaction: one package_files row per moved file
RECURSIVE record_files(_, _, _, _)
record_files(tbl, name, walk, k) ==
    IF k = 0 THEN tbl
    ELSE upsert_package_file(record_files(tbl, name, walk, k - 1),
                             [package_name |-> name, filepath |-> Dest(walk[k])])

\* the loop over recipe.dependencies: dep.split_whitespace() and parts[0]
RECURSIVE record_deps(_, _, _, _)
record_deps(tbl, name, deps, k) ==
    IF k = 0 THEN tbl
    ELSE insert_ignore_dependency(record_deps(tbl, name, deps, k - 1),
                                  [package |-> name, depends_on |-> deps[k][1]])

\* install_package that puts the host back as it was when it fails
install_host_rollback(fs, recipe, walk, f) ==
    IF InstallError(f) = Ok THEN place_files(fs, recipe.name, walk, Len(walk)) ELSE fs

\* the host after install_package: the files moved before the fault. A failed
\* create_dir_all(parent) has made part of the path. A failed copy has already made the
\* parent directory; remove_file(dest) ran with its result dropped, so the destination
\* is empty, still holds the file it held, or holds what the copy wrote
install_host(fs, recipe, walk, f) ==
    LET moved == place_files(fs, recipe.name, walk, FilesMoved(f, Len(walk))) IN
    CASE f.at = "mkdir" ->
             [host |-> moved.host, host_dirs |-> moved.host_dirs \cup f.dirs]
      [] f.at = "copy" ->
             LET dest == Dest(walk[f.k]) IN
             [host |-> CASE f.dest = "absent" -> [moved.host EXCEPT ![dest] = NoFile]
                         [] f.dest = "written" ->
                                [moved.host EXCEPT ![dest] = recipe.name]
                         [] OTHER -> moved.host,
              host_dirs |-> moved.host_dirs \cup Ancestors(dest)]
      [] OTHER -> moved

\* the staging root after install_package: untouched when begin fails; the old
\* directory with what its failed removal left; without the directory when it cannot be
\* created or when the removal after the commit works; with what that removal left
\* when it fails; else the directory holds what was not moved and the moved files
\* whose source could not be removed
install_staging(stg, recipe, t, walk, f) ==
    LET key == StageKey(recipe)
        others == [k \in (DOMAIN stg) \ {key} |-> stg[k]]
        moved == {[path |-> walk[i], kind |-> "file"] : i \in 1..FilesMoved(f, Len(walk))}
    IN CASE f.at = "begin" -> stg
         [] f.at \in {"stage", "none"} -> others
         [] f.at \in {"unstage", "cleanup"} -> (key :> f.rest) @@ others
         [] f.at = "cp" -> (key :> f.copied) @@ others
         [] OTHER -> (key :> ((Staged(stg, recipe, t) \ moved)
                              \cup {[path |-> walk[i], kind |-> "file"] : i \in f.left}))
                     @@ others

\* the three tables after install_package
install_db(db, recipe, walk, f) ==
    LET work ==
            [package_files |->
                 record_files(db.package_files, recipe.name, walk,
                              FilesRecorded(f, Len(walk))),
             dependencies |->
                 record_deps(db.dependencies, recipe.name, recipe.dependencies,
                             DepsRecorded(f, Len(recipe.dependencies))),
             packages |->
                 IF f.at \in {"commit", "cleanup", "none"}
                 THEN upsert_package(db.packages,
                                     [name |-> recipe.name, version |-> recipe.version,
                                      hash |-> recipe.sha256_sum])
                 ELSE db.packages]
    IN tx_end(db, work, InstallError(f) = Ok)

----------------------------------------------------------------------------
(* TransactionManager::remove_package, core.rs *)

\* the files and directories the file loop of remove_package can try to delete
Removable == AbsPaths \cup {Parent(p) : p \in AbsPaths}

\* the points at which a call of remove_package can fail, and the paths (stuck) whose
\* remove_file or remove_dir fails in the file loop, where the result is dropped
RemoveFaults ==
    {[at |-> a, stuck |-> {}] : a \in {"begin", "select"}}
    \cup {[at |-> a, stuck |-> s] : a \in {"none", "delete", "commit"},
                                    s \in SUBSET Removable}

\* one turn of the file loop on the host: remove_file if the path exists, then
\* remove_dir(parent), which only removes an empty directory; a path in stuck stays
remove_file(fs, path, stuck) ==
    LET h == IF path \in DOMAIN fs.host /\ path \notin stuck
             THEN [fs.host EXCEPT ![path] = NoFile] ELSE fs.host
        parent == Parent(path)
        empty == /\ parent \in fs.host_dirs
                 /\ Len(parent) > 1
                 /\ \A q \in DOMAIN h : h[q] # NoFile => Parent(q) # parent
                 /\ \A d \in fs.host_dirs : Len(d) > 1 => Parent(d) # parent
    IN [host |-> h,
        host_dirs |-> IF empty /\ parent \notin stuck
                      THEN fs.host_dirs \ {parent} ELSE fs.host_dirs]

\* the file loop over the selected rows
RECURSIVE remove_files(_, _, _)
remove_files(fs, files, stuck) ==
    IF files = {} THEN fs
    ELSE LET path == CHOOSE x \in files : TRUE IN
         remove_files(remove_file(fs, path, stuck), files \ {path}, stuck)

\* the packages that block the removal
remove_blockers(db, name) == select_dependents(db.dependencies, name)

remove_error(db, name, f) ==
    IF f.at \in {"begin", "select"} THEN DbError
    ELSE IF remove_blockers(db, name) # {}
    THEN [kind |-> "DependencyError", msg |-> "Cannot remove", name |-> name,
          by |-> remove_blockers(db, name)]
    ELSE IF f.at = "none" THEN Ok ELSE DbError

\* whether remove_package reaches its file loop
remove_proceeds(db, name, f) ==
    /\ f.at \notin {"begin", "select"}
    /\ remove_blockers(db, name) = {}

remove_host(fs, db, name, f) ==
    IF remove_proceeds(db, name, f)
    THEN remove_files(fs, select_files(db.package_files, name), f.stuck)
    ELSE fs

\* remove_package without its DELETE FROM dependencies
remove_db_keep_deps(db, name, f) ==
    LET work ==
            [package_files |-> Where(db.package_files,
                                    {r \in Rows(db.package_files) : r.package_name # name}),
             dependencies |-> db.dependencies,
             packages |-> Where(db.packages, {r \in Rows(db.packages) : r.name # name})]
    IN tx_end(db, work, remove_proceeds(db, name, f) /\ f.at = "none")

remove_db(db, name, f) ==
    LET work ==
            [package_files |-> Where(db.package_files,
                                    {r \in Rows(db.package_files) : r.package_name # name}),
             dependencies |-> Where(db.dependencies,
                                   {r \in Rows(db.dependencies) : r.package # name}),
             packages |-> Where(db.packages, {r \in Rows(db.packages) : r.name # name})]
    IN tx_end(db, work, remove_proceeds(db, name, f) /\ f.at = "none")

----------------------------------------------------------------------------
(* The Transaction Manager's calls as steps of the state machine *)

DB == [packages |-> packages, package_files |-> package_files,
       dependencies |-> dependencies]

FS == [host |-> host, host_dirs |-> host_dirs]

HasPackage(db, name) == \E r \in Rows(db.packages) : r.name = name

\* install_package(recipe, artifact tree t), the walk yielding the files in the order
\* walk, failing at fault f
InstallPackage(recipe, t, walk, f) ==
    LET db2 == install_db(DB, recipe, walk, f)
        fs2 == install_host(FS, recipe, walk, f)
    IN /\ packages' = db2.packages
       /\ package_files' = db2.package_files
       /\ dependencies' = db2.dependencies
       /\ host' = fs2.host
       /\ host_dirs' = fs2.host_dirs
       /\ staging' = install_staging(staging, recipe, t, walk, f)
       /\ last' = [op |-> "install", name |-> recipe.name, recipe |-> recipe,
                   tree |-> t, err |-> InstallError(f),
                   moved |-> {walk[i] : i \in 1..FilesMoved(f, Len(walk))},
                   repeat |-> /\ last.op = "install"
                              /\ last.err = Ok
                              /\ last.recipe = recipe
                              /\ last.tree = t,
                   fresh |-> ~HasPackage(DB, recipe.name),
                   stale |-> StaleIn(staging, recipe),
                   calls |-> last.calls + 1]
       /\ installed_with' =
              IF InstallError(f) = Ok
              THEN [installed_with EXCEPT ![recipe.name] =
                        {recipe.dependencies[i][1] : i \in DOMAIN recipe.dependencies}]
              ELSE installed_with

\* remove_package(name), failing at fault f
RemovePackage(name, f) ==
    LET db2 == remove_db(DB, name, f)
        fs2 == remove_host(FS, DB, name, f)
    IN /\ packages' = db2.packages
       /\ package_files' = db2.package_files
       /\ dependencies' = db2.dependencies
       /\ host' = fs2.host
       /\ host_dirs' = fs2.host_dirs
       /\ staging' = staging
       /\ last' = [op |-> "remove", name |-> name, recipe |-> <<>>, tree |-> {},
                   err |-> remove_error(DB, name, f), moved |-> {}, repeat |-> FALSE,
                   fresh |-> FALSE, stale |-> {},
                   calls |-> last.calls + 1]
       /\ installed_with' =
              IF remove_error(DB, name, f) = Ok
              THEN [installed_with EXCEPT ![name] = {}]
              ELSE installed_with

\* the process has made no call of the Transaction Manager
NoCall == [op |-> "none", name |-> "", recipe |-> <<>>, tree |-> {}, err |-> Ok,
           moved |-> {}, repeat |-> FALSE, fresh |-> FALSE, stale |-> {}, calls |-> 0]

\* the state after TransactionManager::new on an empty root
InitStore ==
    /\ packages = EmptyTable
    /\ package_files = EmptyTable
    /\ dependencies = EmptyTable
    /\ host = [p \in AbsPaths |-> NoFile]
    /\ host_dirs = {<<"/">>}
    /\ staging = <<>>
    /\ last = NoCall
    /\ installed_with = [n \in Names |-> {}]

InitExec ==
    /\ cmds = 0
    /\ build_order = <<>>
    /\ idx = 0
    /\ artifact = {}
    /\ building = {}
    /\ result = Ok
    /\ run_installed = {}
    /\ run_built = <<>>
    /\ cmd = "none"
    /\ source = <<>>
    /\ fetch_hash = ""
    /\ fetch_path = ""
    /\ attempt = 0
    /\ waits = <<>>
    /\ tarball = [n \in Names |-> NoTarball]
    /\ in_flight = {}
    /\ got = 0
    /\ fetch_result = Pending
    /\ script_runs = <<>>
    /\ sb_env = <<>>
    /\ sb_pc = "none"
    /\ sb_i = 0
    /\ sb_steps = <<>>
    /\ sb_root = "host"
    /\ sb_cwd = "cwd"
    /\ sb_result = Pending

----------------------------------------------------------------------------
(* Specification of the Transaction Manager alone: any sequence of calls *)

TMNames == {"A", "B"}

\* most Transaction Manager calls in one behaviour
MaxCalls == 2

\* longest dependency list of a recipe handed to install_package
MaxTMDeps == 1

\* the recipes execute can hand to install_package: resolved, so none depends on itself
TMRecipes ==
    UNION {{Recipe(n, ver, deps) :
               ver \in Versions,
               deps \in SeqsUpTo({<<d, r>> : d \in TMNames \ {n}, r \in ReqStrs},
                                 MaxTMDeps)} :
           n \in TMNames}

InitTM ==
    /\ recipes = <<>>
    /\ targets = <<>>
    /\ pc = "tm"
    /\ InitExec
    /\ InitStore

TMInstall ==
    /\ pc = "tm"
    /\ last.calls < MaxCalls
    /\ \E recipe \in TMRecipes, t \in Trees :
        \E walk \in Walks(Staged(staging, recipe, t)) :
            \E f \in InstallFaults(Unstaged(staging, recipe), t, walk,
                                    Len(recipe.dependencies)) :
                InstallPackage(recipe, t, walk, f)
    /\ UNCHANGED exec_vars

TMRemove ==
    /\ pc = "tm"
    /\ last.calls < MaxCalls
    /\ \E name \in TMNames, f \in RemoveFaults : RemovePackage(name, f)
    /\ UNCHANGED exec_vars

NextTM == TMInstall \/ TMRemove

SpecTM == InitTM /\ [][NextTM]_vars

----------------------------------------------------------------------------
(* Specification of the Resolver alone: resolve applied to every input *)

InitResolve ==
    /\ recipes \in RecipeSetsOver(Names, MaxEdges)
    /\ targets \in TargetLists
    /\ pc = "start"
    /\ InitExec
    /\ InitStore

\* Reactor::execute, part 1
Resolve ==
    /\ pc = "start"
    /\ LET st == resolve(targets, recipes) IN
        /\ result' = st.err
        /\ build_order' = st.order
        /\ pc' = IF st.err = Ok THEN "loop" ELSE "failed"
    /\ idx' = 1
    /\ UNCHANGED <<recipes, targets, cmds, artifact, building, run_installed, run_built,
                   packages, package_files, dependencies, host, host_dirs, staging, last,
                   installed_with, cmd, fetch_vars, script_runs,
                   sandbox_vars>>

NextResolve == Resolve

SpecResolve == InitResolve /\ [][NextResolve]_vars

----------------------------------------------------------------------------
(* The Fetcher: builder.rs, download_with_retry and download_inner *)

max_retries == 3

\* the response bodies a server of the input family serves, as their chunks in order
Bodies == {<<"a", "b">>, <<"a", "c">>}

\* what a place of the file holds that no write has filled
Hole == "0"

\* hex::encode(hasher.finalize()) after hasher.update on every chunk in order: the digest
\* of the bytes received, different for different contents
Sha256(chunks) ==
    CASE chunks = <<"a", "b">> -> "h1"
      [] chunks = <<"a", "c">> -> "h2"
      [] chunks = <<"a">> -> "h3"
      [] OTHER -> "h0"

\* what becomes of the last write_all of an attempt, which the blocking pool carries out
\* after write_all has returned and whose result no later call of the attempt reads: it
\* is on the disk when the attempt returns, it fails or is never carried out, or it is
\* carried out later
Lands == {"landed", "lost", "late"}

\* what one attempt meets: the request fails; the status is not a success, an error
\* status (4xx, 5xx) or another one (1xx, 3xx); File::create fails; write k fails and
\* the next write_all returns its error; the stream fails after `got` chunks; or the
\* whole body arrives
Outcomes ==
    {[at |-> "send"], [at |-> "create"]}
        \cup {[at |-> "status", class |-> c] : c \in {"error", "other"}}
        \cup UNION {{[at |-> "write", body |-> b, k |-> j] : j \in 1..(Len(b) - 1)} :
                    b \in Bodies}
        \cup {[at |-> "stream", body |-> b, got |-> 0, last |-> "landed"] : b \in Bodies}
        \cup UNION {{[at |-> "stream", body |-> b, got |-> k, last |-> l] :
                        k \in 1..Len(b), l \in Lands} : b \in Bodies}
        \cup {[at |-> "none", body |-> b, last |-> l] : b \in Bodies, l \in Lands}

Sources == [1..max_retries -> Outcomes]

\* what the server does at attempt n; a source goes on as it ended
Served(src, n) == IF n \in DOMAIN src THEN src[n] ELSE src[Len(src)]

\* the chunks the stream of an attempt yields before write_all returns the error of
\* the write before, the stream fails or the body ends
Yields(o) ==
    CASE o.at = "write" -> o.k
      [] o.at = "stream" -> o.got
      [] o.at = "none" -> Len(o.body)
      [] OTHER -> 0

\* what becomes of write k of an attempt: the write that fails is never on the disk, the
\* last one is as the outcome says, every other one is carried out
WriteOf(o, k) ==
    CASE o.at = "write" /\ k = o.k -> "lost"
      [] o.at \in {"stream", "none"} /\ k = Yields(o) -> o.last
      [] OTHER -> "landed"

\* download_inner: what the attempt returns, Panic for the unwrap_err on a status that
\* is no error; the digest is the digest of the chunks received
download_inner(o, hash) ==
    CASE o.at = "send" -> NetworkError
      [] o.at = "status" -> IF o.class = "error" THEN NetworkError ELSE Panic
      [] o.at = "create" -> IoError
      [] o.at = "write" -> IoError
      [] o.at = "stream" -> NetworkError
      [] OTHER -> IF Sha256(o.body) # hash THEN HashMismatch ELSE Ok

\* download_with_retry: attempt >= max_retries
retries_exhausted(n) == n >= max_retries

\* a loop that returns a HashMismatch at once
fetch_returns_fatal_hash(err, n) ==
    err = Ok \/ err = HashMismatch \/ retries_exhausted(n)

\* download_with_retry: the match on the attempt's result returns Ok, or the error once
\* the attempts are used up; every other error goes on to the sleep
fetch_returns(err, n) == err = Ok \/ retries_exhausted(n)

\* download_with_retry: attempt n of download_inner has ended with err; the unwrap_err
\* on a status that is no error ends the process
AttemptReturns(err, n) ==
    IF err = Panic
    THEN /\ pc' = "panicked"
         /\ result' = Panic
         /\ building' = building \ {fetch_path}
         /\ fetch_result' = fetch_result
    ELSE /\ IF fetch_returns(err, n)
            THEN fetch_result' = err /\ pc' = "fetched"
            ELSE fetch_result' = fetch_result /\ pc' = "sleep"
         /\ UNCHANGED <<result, building>>

\* a write at place pos of a file, which a File::create since may have cut short
Put(file, pos, chunk) ==
    IF pos <= Len(file)
    THEN [file EXCEPT ![pos] = chunk]
    ELSE file \o [i \in 1..(pos - Len(file) - 1) |-> Hole] \o <<chunk>>

\* the file once the writes ws, at most one, have been carried out
Await(file, ws) ==
    IF ws = {}
    THEN file
    ELSE LET w == CHOOSE x \in ws : TRUE IN Put(file, w.pos, w.chunk)

\* download_with_retry: attempt += 1; download_inner: the client, the request and the
\* check of the status
FetchRequest ==
    /\ pc = "fetch"
    /\ attempt' = attempt + 1
    /\ IF Served(source, attempt + 1).at \in {"send", "status"}
       THEN AttemptReturns(download_inner(Served(source, attempt + 1), fetch_hash),
                           attempt + 1)
       ELSE /\ pc' = "create"
            /\ UNCHANGED <<fetch_result, result, building>>
    /\ UNCHANGED <<recipes, targets, cmds, build_order, idx, artifact, run_installed,
                   run_built, cmd, source, fetch_hash, fetch_path, waits, tarball,
                   in_flight, got>>
    /\ UNCHANGED <<db_vars, fs_vars, last, installed_with, script_runs, sandbox_vars>>

\* download_inner: File::create(path), which empties the file
FetchCreate ==
    /\ pc = "create"
    /\ IF Served(source, attempt).at = "create"
       THEN /\ AttemptReturns(download_inner(Served(source, attempt), fetch_hash),
                              attempt)
            /\ UNCHANGED <<tarball, got>>
       ELSE /\ pc' = "stream"
            /\ tarball' = [tarball EXCEPT ![fetch_path] = <<>>]
            /\ got' = 0
            /\ UNCHANGED <<fetch_result, result, building>>
    /\ UNCHANGED <<recipes, targets, cmds, build_order, idx, artifact, run_installed,
                   run_built, cmd, source, fetch_hash, fetch_path, attempt, waits,
                   in_flight>>
    /\ UNCHANGED <<db_vars, fs_vars, last, installed_with, script_runs, sandbox_vars>>

\* download_inner, one turn of the chunk loop or its end. write_all waits for the write
\* before, returns its error if it failed, and hands the chunk to the blocking pool;
\* when the stream fails or ends, download_inner returns its error or compares the
\* digest, and nothing waits for the last write
FetchChunk ==
    /\ pc = "stream"
    /\ LET o == Served(source, attempt)
           mine == {w \in in_flight : w.path = fetch_path /\ w.n = attempt}
           left == IF got = Yields(o) /\ WriteOf(o, got) = "late" THEN mine ELSE {}
       IN
        /\ tarball' = [tarball EXCEPT ![fetch_path] = Await(@, mine \ left)]
        /\ IF got < Yields(o)
           THEN /\ got' = got + 1
                /\ in_flight' =
                       (in_flight \ mine)
                           \cup IF WriteOf(o, got + 1) = "lost"
                                THEN {}
                                ELSE {[path |-> fetch_path, pos |-> got + 1,
                                       chunk |-> o.body[got + 1], n |-> attempt]}
                /\ UNCHANGED <<pc, fetch_result, result, building>>
           ELSE /\ got' = got
                /\ in_flight' = (in_flight \ mine) \cup left
                /\ AttemptReturns(download_inner(o, fetch_hash), attempt)
    /\ UNCHANGED <<recipes, targets, cmds, build_order, idx, artifact, run_installed,
                   run_built, cmd, source, fetch_hash, fetch_path, attempt, waits>>
    /\ UNCHANGED <<db_vars, fs_vars, last, installed_with, script_runs, sandbox_vars>>

\* download_with_retry: tokio::time::sleep(Duration::from_secs(attempt))
FetchSleep ==
    /\ pc = "sleep"
    /\ waits' = Append(waits, attempt)
    /\ pc' = "fetch"
    /\ UNCHANGED <<recipes, targets, cmds, build_order, idx, artifact, building, result,
                   run_installed, run_built, cmd, source, fetch_hash, fetch_path, attempt,
                   tarball, in_flight, got, fetch_result>>
    /\ UNCHANGED <<db_vars, fs_vars, last, installed_with, script_runs, sandbox_vars>>

\* the blocking pool carries out a write handed to it
WriteLands ==
    /\ \E w \in in_flight :
        /\ in_flight' = in_flight \ {w}
        /\ tarball' = [tarball EXCEPT ![w.path] =
                           IF @ = NoTarball THEN @ ELSE Put(@, w.pos, w.chunk)]
    /\ UNCHANGED <<recipes, targets, pc, cmds, build_order, idx, artifact, building,
                   result, run_installed, run_built, cmd, source, fetch_hash, fetch_path,
                   attempt, waits, got, fetch_result>>
    /\ UNCHANGED <<db_vars, fs_vars, last, installed_with, script_runs, sandbox_vars>>

\* one call of download_with_retry on a fresh path, for every source and both hashes
InitFetch ==
    /\ recipes = <<>>
    /\ targets = <<>>
    /\ pc = "fetch"
    /\ cmds = 0
    /\ build_order = <<>>
    /\ idx = 0
    /\ artifact = {}
    /\ building = {}
    /\ result = Ok
    /\ run_installed = {}
    /\ run_built = <<>>
    /\ cmd = "none"
    /\ source \in Sources
    /\ fetch_hash \in {"h1", "h2"}
    /\ fetch_path = "A"
    /\ attempt = 0
    /\ waits = <<>>
    /\ tarball = [n \in Names |-> NoTarball]
    /\ in_flight = {}
    /\ got = 0
    /\ fetch_result = Pending
    /\ script_runs = <<>>
    /\ sb_env = <<>>
    /\ sb_pc = "none"
    /\ sb_i = 0
    /\ sb_steps = <<>>
    /\ sb_root = "host"
    /\ sb_cwd = "cwd"
    /\ sb_result = Pending
    /\ InitStore

NextFetch == FetchRequest \/ FetchCreate \/ FetchChunk \/ FetchSleep \/ WriteLands

SpecFetch == InitFetch /\ [][NextFetch]_vars

----------------------------------------------------------------------------
(* The build script's confinement: sandbox.rs, ScriptSandbox::run *)

\* ScriptSandbox::run: bind_dirs
bind_dirs == <<"/bin", "/usr", "/lib", "/lib64", "/dev", "/etc">>

\* the calls of the child between fork and the script, and the parent's wait
SandboxCalls ==
    {"unshare", "private", "proc", "chroot", "chdir", "exec", "wait"}
        \cup {bind_dirs[i] : i \in DOMAIN bind_dirs}

\* a run: whether <root>/proc exists, the directories of bind_dirs the host has, the
\* call that fails if any, and the exit status of the script
SandboxEnvs ==
    [proc : BOOLEAN,
     dirs : SUBSET {bind_dirs[i] : i \in DOMAIN bind_dirs},
     fault : SandboxCalls \cup {"none"},
     exit : {0, 1}]

\* a closure that goes on after a failed call
pre_exec_continues_always(failed) == TRUE

\* pre_exec: the `?` on every call of the closure
pre_exec_continues(failed) == ~failed

\* one call of the child: it is recorded when it succeeds; when it fails the closure
\* returns the error, the script is not executed and spawn returns the error to run
SandboxCall(call, next) ==
    LET failed == sb_env.fault = call IN
    /\ sb_steps' = IF failed THEN sb_steps ELSE Append(sb_steps, call)
    /\ sb_root' = IF call = "chroot" /\ ~failed THEN "jail" ELSE sb_root
    /\ sb_cwd' = IF call = "chdir" /\ ~failed THEN "/" ELSE sb_cwd
    /\ sb_pc' = IF pre_exec_continues(failed) THEN next ELSE "returned"
    /\ sb_result' = IF pre_exec_continues(failed) THEN sb_result ELSE IoError

\* a call that does not apply is passed over
SandboxSkip(next) ==
    /\ sb_pc' = next
    /\ UNCHANGED <<sb_steps, sb_root, sb_cwd, sb_result>>

NotSandbox ==
    UNCHANGED <<recipes, targets, pc, cmds, build_order, idx, artifact, building, result,
                run_installed, run_built, cmd, fetch_vars, script_runs, db_vars,
                fs_vars, last, installed_with, sb_env>>

\* unshare(CLONE_NEWNS | CLONE_NEWUTS)
SbUnshare ==
    /\ sb_pc = "unshare"
    /\ SandboxCall("unshare", "private")
    /\ UNCHANGED sb_i
    /\ NotSandbox

\* mount(None, "/", None, MS_REC | MS_PRIVATE, None)
SbPrivate ==
    /\ sb_pc = "private"
    /\ SandboxCall("private", "proc")
    /\ UNCHANGED sb_i
    /\ NotSandbox

\* mount proc on <root>/proc if it exists
SbProc ==
    /\ sb_pc = "proc"
    /\ IF sb_env.proc THEN SandboxCall("proc", "bind") ELSE SandboxSkip("bind")
    /\ sb_i' = 1
    /\ NotSandbox

\* one turn of the loop over bind_dirs: the directory is bind-mounted under <root> when
\* the host has it
SbBind ==
    /\ sb_pc = "bind"
    /\ LET next == IF sb_i = Len(bind_dirs) THEN "chroot" ELSE "bind" IN
       IF bind_dirs[sb_i] \in sb_env.dirs
       THEN SandboxCall(bind_dirs[sb_i], next)
       ELSE SandboxSkip(next)
    /\ sb_i' = sb_i + 1
    /\ NotSandbox

\* chroot(&root)
SbChroot ==
    /\ sb_pc = "chroot"
    /\ SandboxCall("chroot", "chdir")
    /\ UNCHANGED sb_i
    /\ NotSandbox

\* chdir("/")
SbChdir ==
    /\ sb_pc = "chdir"
    /\ SandboxCall("chdir", "exec")
    /\ UNCHANGED sb_i
    /\ NotSandbox

\* the closure returned Ok: exec of /bin/sh -c script; a failed exec makes spawn fail
SbExec ==
    /\ sb_pc = "exec"
    /\ LET failed == sb_env.fault = "exec" IN
        /\ sb_steps' = IF failed THEN sb_steps ELSE Append(sb_steps, "exec")
        /\ sb_pc' = IF failed THEN "returned" ELSE "running"
        /\ sb_result' = IF failed THEN IoError ELSE sb_result
    /\ UNCHANGED <<sb_i, sb_root, sb_cwd>>
    /\ NotSandbox

\* wait_with_output, then the exit status: non-zero is the build-failure error
SbWait ==
    /\ sb_pc = "running"
    /\ sb_pc' = "returned"
    /\ sb_result' = IF sb_env.fault = "wait" THEN IoError
                    ELSE IF sb_env.exit # 0
                         THEN DependencyError("Build script failed", "")
                         ELSE Ok
    /\ UNCHANGED <<sb_i, sb_steps, sb_root, sb_cwd>>
    /\ NotSandbox

\* one call of ScriptSandbox::run, for every environment
InitSandbox ==
    /\ recipes = <<>>
    /\ targets = <<>>
    /\ pc = "sandbox"
    /\ cmds = 0
    /\ build_order = <<>>
    /\ idx = 0
    /\ artifact = {}
    /\ building = {}
    /\ result = Ok
    /\ run_installed = {}
    /\ run_built = <<>>
    /\ cmd = "none"
    /\ source = <<>>
    /\ fetch_hash = ""
    /\ fetch_path = ""
    /\ attempt = 0
    /\ waits = <<>>
    /\ tarball = [n \in Names |-> NoTarball]
    /\ in_flight = {}
    /\ got = 0
    /\ fetch_result = Pending
    /\ script_runs = <<>>
    /\ sb_env \in SandboxEnvs
    /\ sb_pc = "unshare"
    /\ sb_i = 0
    /\ sb_steps = <<>>
    /\ sb_root = "host"
    /\ sb_cwd = "cwd"
    /\ sb_result = Pending
    /\ InitStore

NextSandbox ==
    \/ SbUnshare
    \/ SbPrivate
    \/ SbProc
    \/ SbBind
    \/ SbChroot
    \/ SbChdir
    \/ SbExec
    \/ SbWait

SpecSandbox == InitSandbox /\ [][NextSandbox]_vars

----------------------------------------------------------------------------
(* The driver and Reactor::execute: main.rs, reactor.rs *)

\* most commands in one behaviour
MaxCmds == 2

AtLeast2 == [op |-> ">=", v |-> <<2, 0, 0>>]

\* a requirement string that VersionReq::parse rejects: ">=1.0.0.0"
BadReq == [op |-> ">=", v |-> <<1, 0, 0, 0>>]

V1 == <<1, 0, 0>>

V2 == <<2, 0, 0>>

\* the recipe trees the commands of this specification load
CmdRecipeSets ==
    {   \* diamond A -> B, C and B -> C, with a requirement on A -> B
        ("A" :> Recipe("A", V1, << <<"B", AtLeast2>>, <<"C">> >>))
            @@ ("B" :> Recipe("B", V2, << <<"C">> >>))
            @@ ("C" :> Recipe("C", V1, <<>>)),
        \* cycle A -> B -> A, next to a newer C
        ("A" :> Recipe("A", V1, << <<"B">> >>))
            @@ ("B" :> Recipe("B", V1, << <<"A">> >>))
            @@ ("C" :> Recipe("C", V2, <<>>)),
        \* version mismatch on A -> B, after the edge A -> C
        ("A" :> Recipe("A", V1, << <<"C">>, <<"B", AtLeast2>> >>))
            @@ ("B" :> Recipe("B", V1, <<>>))
            @@ ("C" :> Recipe("C", V1, <<>>)),
        \* missing dependency C
        ("A" :> Recipe("A", V1, << <<"B">> >>))
            @@ ("B" :> Recipe("B", V1, << <<"C">> >>)),
        \* a requirement that does not parse, on B -> A, next to the sound A -> C
        ("A" :> Recipe("A", V1, << <<"C">> >>))
            @@ ("B" :> Recipe("B", V1, << <<"A", BadReq>> >>))
            @@ ("C" :> Recipe("C", V1, <<>>))
    }

\* the errors Builder::build can end with: download, unpack, build script
BuildErrors == {IoError, DependencyError("Build script failed", "")}

\* the body whose digest is h
BodyWith(h) == CHOOSE b \in Bodies : Sha256(b) = h

\* the servers and disks of this specification, for a recipe with hash h: one that
\* serves the recipe's bytes, one that always serves other bytes, one whose first request
\* fails, one whose requests all fail, one where File::create always fails, one that
\* answers the second request with a status that is neither a success nor an error, and,
\* for the archives of version 2.0.0, the recipe's bytes with the last write lost or late
CmdSources(h) ==
    LET good == [at |-> "none", body |-> BodyWith(h), last |-> "landed"]
        bad == [at |-> "none", body |-> CHOOSE b \in Bodies : Sha256(b) # h,
                last |-> "landed"]
        send == [at |-> "send"]
        other == [at |-> "status", class |-> "other"]
        create == [at |-> "create"]
        lost == [at |-> "none", body |-> BodyWith(h), last |-> "lost"]
        late == [at |-> "none", body |-> BodyWith(h), last |-> "late"]
    IN {<<good, good, good>>, <<bad, bad, bad>>, <<send, good, good>>,
        <<send, send, send>>, <<create, create, create>>, <<send, other, good>>}
       \cup (IF h = HashOf(V2) THEN {<<lost, good, good>>, <<late, good, good>>} ELSE {})

Init ==
    /\ recipes = <<>>
    /\ targets = <<>>
    /\ pc = "idle"
    /\ InitExec
    /\ InitStore

\* the process has ended: main returned, exited with the error or panicked
Ended == pc \in {"done", "failed", "panicked"}

\* no process is running and none has left a write behind
Idle == (pc = "idle" \/ Ended) /\ in_flight = {}

\* a write left behind is never carried out, or fails: the process has ended (main
\* returned, exit(1), or the panic) and nothing reads the result of the write
WriteDropped ==
    /\ Ended
    /\ \E w \in in_flight : in_flight' = in_flight \ {w}
    /\ UNCHANGED <<recipes, targets, pc, cmds, build_order, idx, artifact, building,
                   result, run_installed, run_built, cmd, source, fetch_hash, fetch_path,
                   attempt, waits, tarball, got, fetch_result>>
    /\ UNCHANGED <<db_vars, fs_vars, last, installed_with, script_runs, sandbox_vars>>

\* a new invocation of the program: no call of download_with_retry is under way
NoFetch ==
    /\ source' = <<>>
    /\ fetch_hash' = ""
    /\ fetch_path' = ""
    /\ attempt' = 0
    /\ waits' = <<>>
    /\ got' = 0
    /\ fetch_result' = Pending

\* main.rs, run before the command: what create_dir_all on the raven root, the load of
\* the configuration and TransactionManager::new, which opens the database and creates
\* its tables, can end with
SetupErrors == {IoError, ParseError, DbError}

\* SourceManager::load: what it ends with on a recipes directory of which a file cannot
\* be read, is no recipe, or carries a version that is no semantic version
LoadErrors ==
    {IoError, ParseError} \cup {DependencyError("Invalid version", n) : n \in Names}

\* main.rs, Commands::Install: the set-up, the load of the recipes and the entry into
\* Reactor::execute; an error of the set-up or of the load ends the process
CmdInstall ==
    /\ Idle
    /\ cmds < MaxCmds
    /\ \/ \E rs \in CmdRecipeSets, tgts \in TargetLists :
            /\ recipes' = rs
            /\ targets' = tgts
            /\ pc' = "start"
            /\ result' = Ok
       \/ \E e \in SetupErrors \cup LoadErrors :
            /\ recipes' = <<>>
            /\ targets' = <<>>
            /\ pc' = "failed"
            /\ result' = e
    /\ cmd' = "install"
    /\ build_order' = <<>>
    /\ cmds' = cmds + 1
    /\ idx' = 0
    /\ artifact' = {}
    /\ run_installed' = {}
    /\ run_built' = <<>>
    /\ NoFetch
    /\ script_runs' = <<>>
    /\ UNCHANGED <<building, packages, package_files, dependencies, host, host_dirs,
                   staging, installed_with, tarball, in_flight, sandbox_vars>>
    /\ last' = NoCall

\* list_installed: SELECT name, version FROM packages
list_installed(db) == {<<r.name, r.version>> : r \in Rows(db.packages)}

\* a selection that also takes the packages whose recipe version is the installed one
to_upgrade_not_older(installed, rs) ==
    {i[1] : i \in {j \in installed : /\ j[1] \in DOMAIN rs
                                     /\ ~VersionGreater(j[2], rs[j[1]].version)}}

\* main.rs, Commands::Upgrade: the installed packages with a recipe whose version is
\* greater than the installed one; load accepted the versions, so both parse
to_upgrade(installed, rs) ==
    {i[1] : i \in {j \in installed : /\ j[1] \in DOMAIN rs
                                     /\ VersionGreater(rs[j[1]].version, j[2])}}

\* the orders in which the rows of a SELECT without ORDER BY can bring the names of S
Orders(S) ==
    {q \in [1..Cardinality(S) -> S] : {q[i] : i \in DOMAIN q} = S}

\* main.rs, Commands::Upgrade: the set-up, list_installed and the load of the recipes,
\* an error of which ends the process; then execute on the selection, or nothing when
\* it is empty
CmdUpgrade ==
    /\ Idle
    /\ cmds < MaxCmds
    /\ \/ \E rs \in CmdRecipeSets :
            \E tgts \in Orders(to_upgrade(list_installed(DB), rs)) :
                /\ recipes' = rs
                /\ targets' = tgts
                /\ pc' = IF tgts = <<>> THEN "done" ELSE "start"
                /\ result' = Ok
       \/ \E e \in SetupErrors \cup LoadErrors :
            /\ recipes' = <<>>
            /\ targets' = <<>>
            /\ pc' = "failed"
            /\ result' = e
    /\ cmd' = "upgrade"
    /\ build_order' = <<>>
    /\ cmds' = cmds + 1
    /\ idx' = 0
    /\ artifact' = {}
    /\ run_installed' = {}
    /\ run_built' = <<>>
    /\ NoFetch
    /\ script_runs' = <<>>
    /\ UNCHANGED <<building, packages, package_files, dependencies, host, host_dirs,
                   staging, installed_with, tarball, in_flight, sandbox_vars>>
    /\ last' = NoCall

\* a loop that passes over a package whose packages row carries the recipe's version
BuildBeginSkipInstalled ==
    /\ pc = "loop"
    /\ idx <= Len(build_order)
    /\ IF \E r \in Rows(packages) : /\ r.name = build_order[idx]
                                     /\ r.version = recipes[build_order[idx]].version
       THEN /\ idx' = idx + 1
            /\ UNCHANGED <<building, run_built, pc>>
       ELSE /\ building' = building \cup {build_order[idx]}
            /\ run_built' = Append(run_built, build_order[idx])
            /\ pc' = "building"
            /\ idx' = idx
    /\ UNCHANGED <<recipes, targets, cmds, build_order, artifact, result,
                   run_installed, packages, package_files, dependencies, host,
                   host_dirs, staging, last, installed_with, cmd, fetch_vars,
                   script_runs, sandbox_vars>>

\* Reactor::execute, part 2: Builder::build starts for the next package of the order
BuildBegin ==
    /\ pc = "loop"
    /\ idx <= Len(build_order)
    /\ building' = building \cup {build_order[idx]}
    /\ run_built' = Append(run_built, build_order[idx])
    /\ pc' = "building"
    /\ UNCHANGED <<recipes, targets, cmds, build_order, idx, artifact, result,
                   run_installed, packages, package_files, dependencies, host,
                   host_dirs, staging, last, installed_with, cmd, fetch_vars, script_runs,
                   sandbox_vars>>

\* the writes left behind that are not for the source.tar of package n
WritesElsewhere(n) == {w \in in_flight : w.path # n}

\* Builder::build up to the download: remove_dir_all takes the build directory of the
\* package away, and with it an earlier source.tar, the directories are made anew and
\* download_with_retry is called with the recipe's hash; a failure of the preparation
\* ends the build with IoError, with the earlier source.tar still there only when
\* remove_dir_all failed before it came to the file
Download ==
    /\ pc = "building"
    /\ \/ /\ pc' = "fetch"
          /\ fetch_hash' = recipes[build_order[idx]].sha256_sum
          /\ fetch_path' = build_order[idx]
          /\ source' \in CmdSources(recipes[build_order[idx]].sha256_sum)
          /\ attempt' = 0
          /\ waits' = <<>>
          /\ got' = 0
          /\ tarball' = [tarball EXCEPT ![build_order[idx]] = NoTarball]
          /\ in_flight' = WritesElsewhere(build_order[idx])
          /\ fetch_result' = Pending
          /\ UNCHANGED <<result, building>>
       \/ /\ pc' = "failed"
          /\ result' = IoError
          /\ building' = building \ {build_order[idx]}
          /\ \E kept \in {NoTarball, tarball[build_order[idx]]} :
                /\ tarball' = [tarball EXCEPT ![build_order[idx]] = kept]
                /\ in_flight' = IF kept = NoTarball
                                THEN WritesElsewhere(build_order[idx])
                                ELSE in_flight
          /\ UNCHANGED <<source, fetch_hash, fetch_path, attempt, waits, got,
                         fetch_result>>
    /\ UNCHANGED <<recipes, targets, cmds, build_order, idx, artifact, run_installed,
                   run_built, cmd, packages, package_files, dependencies, host,
                   host_dirs, staging, last, installed_with, script_runs,
                   sandbox_vars>>

\* a build that goes on to unpack and run the script whatever the download returned
build_result_ignore_fetch(fetched, script) == script

\* Builder::build after the download: the `?` on download_with_retry, then the unpacking
\* and the build script
build_result(fetched, script) == IF fetched # Ok THEN fetched ELSE script

\* Builder::build: the `?` on download_with_retry stands before the unpacking and before
\* ScriptSandbox::run, which are reached only when it returned Ok
script_started(fetched) == fetched = Ok

\* what the steps between the download and the script can end with: the unpacking,
\* File::create(build.log) and the set-up of the sandbox child; Ok when the build does
\* not get there
UnpackResults(reached) == IF reached THEN {Ok, IoError} ELSE {Ok}

\* what the build script can end with, Ok when it is not run
ScriptResults(started) == IF started THEN {Ok} \cup BuildErrors ELSE {Ok}

\* Reactor::execute: the `?` on builder.build
after_build(err) == IF err = Ok THEN "install" ELSE "failed"

\* Builder::build returns: the out directory holding what the install commands
\* produced, or an error, which execute returns
BuildEnd ==
    /\ pc = "fetched"
    /\ building' = building \ {build_order[idx]}
    /\ \E unpack \in UnpackResults(script_started(fetch_result)) :
       \E script \in ScriptResults(script_started(fetch_result) /\ unpack = Ok) :
        LET err == build_result(fetch_result, IF unpack = Ok THEN script ELSE unpack) IN
        /\ script_runs' = IF script_started(fetch_result) /\ unpack = Ok
                          THEN Append(script_runs, build_order[idx])
                          ELSE script_runs
        /\ pc' = after_build(err)
        /\ result' = IF err = Ok THEN result ELSE err
        /\ artifact' = IF err = Ok
                       THEN recipes[build_order[idx]].install_commands
                       ELSE artifact
        /\ IF err = Ok THEN NoFetch ELSE UNCHANGED <<source, fetch_hash, fetch_path,
                                                     attempt, waits, got, fetch_result>>
    /\ UNCHANGED <<recipes, targets, cmds, build_order, idx, run_installed, run_built,
                   packages, package_files, dependencies, host, host_dirs, staging,
                   last, installed_with, cmd, tarball, in_flight, sandbox_vars>>

\* Install that drops the `?`: the loop goes on after a failed install_package
InstallIgnoreError ==
    /\ pc = "install"
    /\ LET recipe == recipes[build_order[idx]] IN
       \E walk \in Walks(Staged(staging, recipe, artifact)) :
           \E f \in InstallFaults(Unstaged(staging, recipe), artifact, walk,
                                   Len(recipe.dependencies)) :
               /\ InstallPackage(recipe, artifact, walk, f)
               /\ run_installed' = IF InstallError(f) = Ok
                                   THEN run_installed \cup {recipe.name}
                                   ELSE run_installed
               /\ idx' = idx + 1
               /\ pc' = "loop"
               /\ result' = result
    /\ UNCHANGED <<recipes, targets, cmds, build_order, artifact, building, run_built,
                   cmd, fetch_vars, script_runs,
                   sandbox_vars>>

\* Reactor::execute, part 2: install_package on the artifact; an error ends execute
Install ==
    /\ pc = "install"
    /\ LET recipe == recipes[build_order[idx]] IN
       \E walk \in Walks(Staged(staging, recipe, artifact)) :
           \E f \in InstallFaults(Unstaged(staging, recipe), artifact, walk,
                                   Len(recipe.dependencies)) :
               /\ InstallPackage(recipe, artifact, walk, f)
               /\ IF InstallError(f) = Ok
                  THEN /\ run_installed' = run_installed \cup {recipe.name}
                       /\ idx' = idx + 1
                       /\ pc' = "loop"
                       /\ result' = result
                  ELSE /\ run_installed' = run_installed
                       /\ idx' = idx
                       /\ pc' = "failed"
                       /\ result' = InstallError(f)
    /\ UNCHANGED <<recipes, targets, cmds, build_order, artifact, building, run_built,
                   cmd, fetch_vars, script_runs,
                   sandbox_vars>>

\* Reactor::execute returns Ok(()) after the last package
ExecuteDone ==
    /\ pc = "loop"
    /\ idx > Len(build_order)
    /\ pc' = "done"
    /\ result' = Ok
    /\ UNCHANGED <<recipes, targets, cmds, build_order, idx, artifact, building,
                   run_installed, run_built, packages, package_files, dependencies,
                   host, host_dirs, staging, last, installed_with, cmd, fetch_vars, script_runs,
                   sandbox_vars>>

\* main.rs, Commands::Remove: the set-up, an error of which ends the process, then the
\* loop over the packages of the command line
CmdRemove ==
    /\ Idle
    /\ cmds < MaxCmds
    /\ \/ \E tgts \in TargetLists :
            /\ targets' = tgts
            /\ pc' = "remove"
            /\ result' = Ok
       \/ \E e \in SetupErrors :
            /\ targets' = <<>>
            /\ pc' = "failed"
            /\ result' = e
    /\ cmd' = "remove"
    /\ cmds' = cmds + 1
    /\ recipes' = <<>>
    /\ build_order' = <<>>
    /\ idx' = 1
    /\ artifact' = {}
    /\ run_installed' = {}
    /\ run_built' = <<>>
    /\ NoFetch
    /\ script_runs' = <<>>
    /\ UNCHANGED <<building, packages, package_files, dependencies, host, host_dirs,
                   staging, installed_with, tarball, in_flight, sandbox_vars>>
    /\ last' = NoCall

\* main.rs, Commands::Remove, one turn of the loop: remove_package on the next package,
\* an error of which ends the process
RemoveNext ==
    /\ pc = "remove"
    /\ idx <= Len(targets)
    /\ \E f \in RemoveFaults :
        /\ RemovePackage(targets[idx], f)
        /\ IF remove_error(DB, targets[idx], f) = Ok
           THEN /\ idx' = idx + 1
                /\ pc' = "remove"
                /\ result' = result
           ELSE /\ idx' = idx
                /\ pc' = "failed"
                /\ result' = remove_error(DB, targets[idx], f)
    /\ UNCHANGED <<recipes, targets, cmds, build_order, artifact, building,
                   run_installed, run_built, cmd, fetch_vars, script_runs, sandbox_vars>>

\* main.rs, Commands::Remove: the loop has passed the last package and run returns Ok
RemoveDone ==
    /\ pc = "remove"
    /\ idx > Len(targets)
    /\ pc' = "done"
    /\ result' = Ok
    /\ UNCHANGED <<recipes, targets, cmds, build_order, idx, artifact, building,
                   run_installed, run_built, packages, package_files, dependencies,
                   host, host_dirs, staging, last, installed_with, cmd, fetch_vars,
                   script_runs, sandbox_vars>>

Next ==
    \/ CmdInstall
    \/ CmdUpgrade
    \/ Resolve
    \/ BuildBegin
    \/ Download
    \/ FetchRequest
    \/ FetchCreate
    \/ FetchChunk
    \/ FetchSleep
    \/ WriteLands
    \/ WriteDropped
    \/ BuildEnd
    \/ Install
    \/ ExecuteDone
    \/ CmdRemove
    \/ RemoveNext
    \/ RemoveDone

Spec == Init /\ [][Next]_vars

----------------------------------------------------------------------------
(* The dependency graph of a recipe set, stated on its own terms *)

Range(seq) == {seq[i] : i \in DOMAIN seq}

\* the names a recipe lists as dependencies
DepNames(rs, n) ==
    IF n \in DOMAIN rs THEN {d[1] : d \in Range(rs[n].dependencies)} ELSE {}

\* the names reachable from the set S along dependency edges, S included
RECURSIVE Reach(_, _)
Reach(rs, S) ==
    LET more == S \cup UNION {DepNames(rs, n) : n \in S} IN
    IF more = S THEN S ELSE Reach(rs, more)

\* the transitive dependencies of n
TransDeps(rs, n) == Reach(rs, DepNames(rs, n))

OnCycle(rs, n) == n \in TransDeps(rs, n)

Reachable(rs, tgts) == Reach(rs, Range(tgts))

\* a requirement admits a version: ">=" compares with the comparator padded by zeros
Admits(r, ver) ==
    \/ r.op = "*"
    \/ /\ r.op = ">="
       /\ ~VersionGreater(<<Part(r, 1), Part(r, 2), Part(r, 3)>>, ver)

\* the dependency strings listed by reachable recipes, as <<package, string>>
ReachableEdges(rs, tgts) ==
    UNION {{<<n, d>> : d \in Range(rs[n].dependencies)} :
           n \in Reachable(rs, tgts) \cap DOMAIN rs}

\* the dependency string of an edge is "NAME" or "NAME REQ" with a well-formed REQ
ReqWellFormed(e) == Len(e[2]) = 1 \/ e[2][2] \in ReqStrs

\* an edge whose requirement does not admit the version of the dependency's recipe
Mismatched(rs, e) ==
    /\ e[2][1] \in DOMAIN rs
    /\ Len(e[2]) = 2
    /\ ~Admits(e[2][2], rs[e[2][1]].version)

AllPresent(rs, tgts) == Reachable(rs, tgts) \subseteq DOMAIN rs

Acyclic(rs, tgts) == \A n \in Reachable(rs, tgts) : ~OnCycle(rs, n)

AllSatisfied(rs, tgts) ==
    \A e \in ReachableEdges(rs, tgts) : ReqWellFormed(e) /\ ~Mismatched(rs, e)

\* an input the Resolver has to accept
ValidInput(rs, tgts) ==
    AllPresent(rs, tgts) /\ Acyclic(rs, tgts) /\ AllSatisfied(rs, tgts)

\* execute has just left its resolution, with an order or with an error
AfterResolve == pc \in {"loop", "failed"} /\ idx = 1 /\ run_built = <<>>

----------------------------------------------------------------------------
(* C1: Resolver totality. For an acyclic input whose reachable names all    *)
(* have recipes and whose reachable requirements are all matched, the       *)
(* resolution succeeds and the build order holds every reachable package    *)
(* exactly once, nothing else, each after all its transitive dependencies.  *)
InvResolverTotality ==
    (AfterResolve /\ ValidInput(recipes, targets)) =>
        /\ pc = "loop"
        /\ result = Ok
        /\ Range(build_order) = Reachable(recipes, targets)
        /\ Len(build_order) = Cardinality(Reachable(recipes, targets))
        /\ \A i \in DOMAIN build_order :
               \A d \in TransDeps(recipes, build_order[i]) :
                   \E j \in 1..(i - 1) : build_order[j] = d

\* a diamond was resolved: three packages, one of them with two dependencies
WitResolverTotality ==
    /\ AfterResolve
    /\ pc = "loop"
    /\ ValidInput(recipes, targets)
    /\ Len(build_order) = 3
    /\ \E n \in DOMAIN recipes : Cardinality(DepNames(recipes, n)) = 2
    /\ \E n \in DOMAIN recipes : Cardinality(TransDeps(recipes, n)) = 1

----------------------------------------------------------------------------
\* some package on a dependency cycle is reachable from the targets
CycleReachable(rs, tgts) == \E n \in Reachable(rs, tgts) : OnCycle(rs, n)

\* the resolution failed with the circular-dependency error
CircularError == result.kind = "DependencyError" /\ result.msg = "Circular dependency"

(* C2 as stated: whenever a dependency cycle is reachable from a target,    *)
(* resolution fails with a DependencyError that names a package on a cycle, *)
(* also when the graph holds missing dependencies or unmatched requirements.*)
CexCycleNamesCycleNode ==
    (AfterResolve /\ CycleReachable(recipes, targets)) =>
        /\ pc = "failed"
        /\ result.kind = "DependencyError"
        /\ OnCycle(recipes, result.name)

(* C2, amended: whenever a dependency cycle is reachable from a target,     *)
(* resolution fails with a DependencyError; a circular-dependency error     *)
(* always names a package on a cycle; and when every reachable name has a   *)
(* recipe and every reachable requirement is matched, the error is the      *)
(* circular-dependency error.                                               *)
InvCycleDetection ==
    (AfterResolve /\ CycleReachable(recipes, targets)) =>
        /\ pc = "failed"
        /\ result.kind = "DependencyError"
        /\ CircularError => OnCycle(recipes, result.name)
        /\ (AllPresent(recipes, targets) /\ AllSatisfied(recipes, targets))
               => CircularError

\* a cycle of three packages was met from a target that is not the named one
WitCycleDetection ==
    /\ AfterResolve
    /\ CircularError
    /\ Cardinality(TransDeps(recipes, result.name)) = 3
    /\ AllPresent(recipes, targets)
    /\ AllSatisfied(recipes, targets)

----------------------------------------------------------------------------
\* the reachable edges whose requirement the dependency's version does not match
MismatchedEdges(rs, tgts) == {e \in ReachableEdges(rs, tgts) : Mismatched(rs, e)}

(* C3: Version-constraint enforcement. In an acyclic input whose reachable  *)
(* names all have recipes and whose requirements are well formed, if some   *)
(* reachable package lists a dependency whose requirement the dependency's  *)
(* version does not match, execute fails with a version-mismatch            *)
(* DependencyError that names such a dependency, and no build has run; this *)
(* covers edges to a dependency already marked done.                        *)
InvVersionEnforced ==
    (/\ AfterResolve
     /\ AllPresent(recipes, targets)
     /\ Acyclic(recipes, targets)
     /\ \A e \in ReachableEdges(recipes, targets) : ReqWellFormed(e)
     /\ MismatchedEdges(recipes, targets) # {}) =>
        /\ pc = "failed"
        /\ result.kind = "DependencyError"
        /\ result.msg = "Version mismatch"
        /\ \E e \in MismatchedEdges(recipes, targets) : result.name = e[2][1]
        /\ run_built = <<>>
        /\ building = {}

\* the only mismatched edge leads to the first target, done when the edge is met
WitVersionEnforced ==
    /\ AfterResolve
    /\ Len(targets) = 2
    /\ Acyclic(recipes, targets)
    /\ AllPresent(recipes, targets)
    /\ Cardinality(MismatchedEdges(recipes, targets)) = 1
    /\ result.kind = "DependencyError"
    /\ result.msg = "Version mismatch"
    /\ result.name = targets[1]
    /\ targets[1] \in DepNames(recipes, targets[2])

----------------------------------------------------------------------------
\* the depth-first post-order of the names in list, without the names in done
RECURSIVE PostOrder(_, _, _)
PostOrder(rs, list, done) ==
    IF list = <<>> THEN <<>>
    ELSE
        LET n == Head(list) IN
        IF n \in done THEN PostOrder(rs, Tail(list), done)
        ELSE
            LET listed == [i \in DOMAIN rs[n].dependencies |-> rs[n].dependencies[i][1]]
                below == PostOrder(rs, listed, done)
            IN below \o <<n>> \o
               PostOrder(rs, Tail(list), done \cup Range(below) \cup {n})

(* C6: Tie-break determinism. For a resolvable input the build order is the *)
(* depth-first post-order that takes the targets in the caller's order and  *)
(* each recipe's dependencies in the listed order, and no package is        *)
(* emitted twice.                                                           *)
InvPostOrder ==
    (AfterResolve /\ ValidInput(recipes, targets)) =>
        /\ build_order = PostOrder(recipes, targets, {})
        /\ \A i, j \in DOMAIN build_order :
               build_order[i] = build_order[j] => i = j

\* the listed order decided: a recipe lists <<C, B>>, and a target was done before
WitPostOrder ==
    /\ AfterResolve
    /\ pc = "loop"
    /\ ValidInput(recipes, targets)
    /\ Len(targets) = 2
    /\ targets[1] \in TransDeps(recipes, targets[2])
    /\ \E n \in DOMAIN recipes :
           /\ Len(recipes[n].dependencies) = 2
           /\ recipes[n].dependencies[1][1] = "C"
           /\ recipes[n].dependencies[2][1] = "B"
    /\ build_order = <<"C", "B", "A">>

----------------------------------------------------------------------------
(* Claims about the Transaction Manager *)

NoFault == [at |-> "none", stuck |-> {}]

\* the step is a call of install_package
InstallStep == last'.calls # last.calls /\ last'.op = "install"

\* how many times a table holds the row
Copies(tbl, row) == IF row \in Rows(tbl) THEN tbl[row] ELSE 0

\* how many rows of a table are in the set keep
Count(tbl, keep) == BagCardinality([r \in Rows(tbl) \cap keep |-> tbl[r]])

\* every piece of metadata of the recipe is in the tables, once
Committed(db, recipe, placed) ==
    /\ \A p \in placed :
           Copies(db.package_files,
                  [package_name |-> recipe.name, filepath |-> Dest(p)]) = 1
    /\ \A i \in DOMAIN recipe.dependencies :
           Copies(db.dependencies,
                  [package |-> recipe.name,
                   depends_on |-> recipe.dependencies[i][1]]) = 1
    /\ Copies(db.packages,
              [name |-> recipe.name, version |-> recipe.version,
               hash |-> recipe.sha256_sum]) = 1

(* C7: Atomic metadata commit. Every call of install_package either returns *)
(* Ok with one package_files row per placed file, one dependencies row per  *)
(* dependency and the packages row in the tables, all regular files of the  *)
(* artifact placed, or returns an error and leaves the three tables exactly *)
(* as they were before the call.                                            *)
PropAtomicCommit ==
    [][InstallStep =>
           IF last'.err = Ok
           THEN /\ last'.moved = RegularFiles(last'.tree)
                /\ Committed(DB', last'.recipe, last'.moved)
           ELSE UNCHANGED db_vars]_vars

\* a call failed on the store after it had placed two files and with rows pending
WitAtomicCommit ==
    /\ last.op = "install"
    /\ last.err = DbError
    /\ Cardinality(last.moved) = 2
    /\ Len(last.recipe.dependencies) = 1
    /\ ~HasPackage(DB, last.name)
    /\ \E p \in last.moved : host[Dest(p)] = last.name

----------------------------------------------------------------------------
\* the step is a successful install_package after which nothing depends on the package
InstalledUnblocked ==
    /\ InstallStep
    /\ last'.err = Ok
    /\ remove_blockers(DB', last'.name) = {}

\* the outcomes of remove_package in which it returns Ok on the state after the step
RemovesAfter(name) == {f \in RemoveFaults : remove_error(DB', name, f) = Ok}

\* remove_package(name) on the state after the step undoes the step, whichever of its
\* file deletions work
RemoveUndoes ==
    LET name == last'.name IN
    /\ RemovesAfter(name) # {}
    /\ \A f \in RemovesAfter(name) :
           /\ remove_db(DB', name, f) = DB
           /\ \A p \in AbsPaths :
                  (host[p] = NoFile /\ host'[p] # NoFile) =>
                      remove_host(FS', DB', name, f).host[p] = NoFile

(* C9 as stated: from any reachable state, a successful install_package(R)  *)
(* followed by remove_package(R.name), when no other package depends on R,  *)
(* leaves the three tables with the rows they had before the install, and   *)
(* every host file the install newly created is gone. Checked for the       *)
(* installs of a package that is not installed before the call, the case in *)
(* which the tables do return to the rows they had: remove_package returns  *)
(* Ok with a file of the install still on the host when remove_file fails.  *)
CexRoundTrip ==
    [][(InstalledUnblocked /\ ~HasPackage(DB, last'.name)) => RemoveUndoes]_vars

----------------------------------------------------------------------------
\* no key of a table is held by two rows
UniqueKeys(db) ==
    /\ \A r \in Rows(db.package_files) :
           Count(db.package_files,
                 {x \in Rows(db.package_files) :
                      x.package_name = r.package_name /\ x.filepath = r.filepath}) = 1
    /\ \A r \in Rows(db.packages) :
           Count(db.packages, {x \in Rows(db.packages) : x.name = r.name}) = 1

(* C10: Idempotent upsert. After a successful install_package(R, tree), a   *)
(* second successful call with the same recipe and tree leaves the three    *)
(* tables with the same rows, whatever order the walk takes; package_files  *)
(* never holds two rows for one (package_name, filepath) and packages holds *)
(* exactly one row for R.name.                                              *)
PropIdempotentUpsert ==
    [][(InstallStep /\ last'.err = Ok) =>
           /\ \A walk \in Walks(last'.tree) :
                  install_db(DB', last'.recipe, walk, NoFault) = DB'
           /\ last'.repeat => DB' = DB
           /\ UniqueKeys(DB')
           /\ Count(packages', {x \in Rows(packages') : x.name = last'.name}) = 1]_vars

\* the second of two successive successful calls with one recipe and a tree of two files
WitIdempotentUpsert ==
    /\ last.op = "install"
    /\ last.err = Ok
    /\ last.repeat
    /\ Cardinality(last.moved) = 2
    /\ Len(last.recipe.dependencies) = 1

----------------------------------------------------------------------------
(* Claims about Reactor::execute as a whole *)

\* an install command is under way or has ended, on an input the Resolver must reject
RejectedInput == recipes # <<>> /\ ~ValidInput(recipes, targets)

(* C4: Resolution precedes all building. When resolution fails for any      *)
(* target of the list, in whatever order the list names them, execute       *)
(* returns a DependencyError from its first part: no build and no           *)
(* install_package call was made, also none for the targets that resolve on *)
(* their own, and the three tables and the host filesystem are as they      *)
(* were.                                                                    *)
PropResolveFirst ==
    [][RejectedInput' =>
           /\ run_built' = <<>>
           /\ building' = {}
           /\ run_installed' = {}
           /\ script_runs' = <<>>
           /\ last' = NoCall
           /\ pc' \in {"start", "failed"}
           /\ pc = "start" =>
                  /\ pc' = "failed"
                  /\ result'.kind = "DependencyError"
                  /\ UNCHANGED <<db_vars, fs_vars, tarball>>]_vars

\* with packages installed, the second target failed after the first, which is not the
\* lesser name, had resolved
WitResolveFirst ==
    /\ AfterResolve
    /\ pc = "failed"
    /\ cmds = 2
    /\ targets = <<"C", "A">>
    /\ ValidInput(recipes, <<targets[1]>>)
    /\ ~ValidInput(recipes, targets)
    /\ Rows(packages) # {}

----------------------------------------------------------------------------
(* C5: Dependencies installed before build. Whenever Builder::build is      *)
(* running for a package, install_package has committed in this run for     *)
(* every transitive dependency of the package, whose packages rows are in   *)
(* the store, and no other package is being built.                          *)
InvDepsInstalledFirst ==
    /\ Cardinality(building) <= 1
    /\ pc = "building" =>
           /\ building = {build_order[idx]}
           /\ \A d \in TransDeps(recipes, build_order[idx]) :
                  /\ d \in run_installed
                  /\ HasPackage(DB, d)

\* the build of a package with two transitive dependencies is running, in a command whose
\* target list names a dependency after the package
WitDepsInstalledFirst ==
    /\ pc = "building"
    /\ Cardinality(TransDeps(recipes, build_order[idx])) = 2
    /\ building = {build_order[idx]}
    /\ Len(targets) = 2
    /\ targets[2] \in TransDeps(recipes, targets[1])

----------------------------------------------------------------------------
\* P and Q are installed and P's last committed install listed Q as a dependency
DependsOnInstalled(P, Q) ==
    /\ HasPackage(DB, P)
    /\ HasPackage(DB, Q)
    /\ Q \in installed_with[P]

(* C8 as stated: Remove refusal. In every reachable state, for every pair    *)
(* (P, Q) of installed packages where P was installed with a dependency on  *)
(* Q, remove_package(Q) fails with a DependencyError naming P and changes   *)
(* nothing.                                                                 *)
CexRemoveRefusedAlways ==
    \A P, Q \in Names :
        DependsOnInstalled(P, Q) =>
            \A f \in RemoveFaults :
                /\ remove_error(DB, Q, f).kind = "DependencyError"
                /\ P \in remove_error(DB, Q, f).by
                /\ remove_db(DB, Q, f) = DB
                /\ remove_host(FS, DB, Q, f) = FS

(* C8, amended: in every reachable state, for every pair (P, Q) of          *)
(* installed packages where P was installed with a dependency on Q,         *)
(* remove_package(Q) deletes no row of the three tables and removes no host *)
(* file or directory; it fails with a DependencyError that names P, or,     *)
(* when the store fails to begin the transaction or to answer the query for *)
(* the dependents, with a DbError.                                          *)
InvRemoveRefused ==
    \A P, Q \in Names :
        DependsOnInstalled(P, Q) =>
            \A f \in RemoveFaults :
                LET err == remove_error(DB, Q, f) IN
                /\ remove_db(DB, Q, f) = DB
                /\ remove_host(FS, DB, Q, f) = FS
                /\ IF f.at \in {"begin", "select"}
                   THEN err = DbError
                   ELSE err.kind = "DependencyError" /\ P \in err.by

\* remove_package was refused for a package that an installed package depends on
WitRemoveRefused ==
    /\ last.op = "remove"
    /\ last.err.kind = "DependencyError"
    /\ \E P \in Names :
           /\ DependsOnInstalled(P, last.name)
           /\ P \in last.err.by
    /\ select_files(package_files, last.name) # {}

----------------------------------------------------------------------------
\* the entry of the artifact tree is on the host and package_files holds its row once
PlacedAndRecorded(e, name) ==
    /\ host[Dest(e.path)] = name
    /\ Copies(package_files, [package_name |-> name, filepath |-> Dest(e.path)]) = 1

(* C11 as stated: after a successful install_package(R, artifact_root),     *)
(* every file the install commands produced under the artifact tree,        *)
(* whatever its kind, is on the host at "/" + r and appears exactly once in *)
(* package_files as the row (R.name, "/" + r).                              *)
CexEveryFileRecorded ==
    (last.op = "install" /\ last.err = Ok) =>
        \A e \in last.tree : PlacedAndRecorded(e, last.name)

----------------------------------------------------------------------------
\* the names that have a packages row
Installed(db) == {r.name : r \in Rows(db.packages)}

(* C12: Referential integrity. In every state reached by any sequence of    *)
(* successful or failed install_package and remove_package calls, every     *)
(* package_files row (p, f) and every dependencies row (p, d) has a         *)
(* packages row for p; the name d need not be installed.                    *)
InvReferentialIntegrity ==
    /\ \A r \in Rows(package_files) : r.package_name \in Installed(DB)
    /\ \A r \in Rows(dependencies) : r.package \in Installed(DB)

\* after a failed call the tables hold file rows and an edge to a name not installed
WitReferentialIntegrity ==
    /\ last.calls = 2
    /\ last.err # Ok
    /\ Rows(package_files) # {}
    /\ \E r \in Rows(dependencies) : r.depends_on \notin Installed(DB)

----------------------------------------------------------------------------
\* the step is an install_package call that failed after it had moved files
FailedAfterPlacing == InstallStep /\ last'.err # Ok /\ last'.moved # {}

(* C20 as stated: if install_package fails after moving some files onto the *)
(* host, the transaction is rolled back so that no row refers to those      *)
(* files, the files placed stay on the host, and no package_files row owns  *)
(* them.                                                                    *)
CexNoRowRefersToPlaced ==
    [][FailedAfterPlacing =>
           /\ UNCHANGED db_vars
           /\ \A p \in last'.moved :
                  /\ host'[Dest(p)] = last'.name
                  /\ \A r \in Rows(package_files') : r.filepath # Dest(p)]_vars

(* C20, amended: if install_package fails after moving some files onto the  *)
(* host, the transaction is rolled back, so the three tables are as before  *)
(* the call and no row is added for those files; the files placed stay on   *)
(* the host in place of the previous content of their paths; a placed file  *)
(* whose path no package_files row held before the call is owned by no row. *)
PropPlacementNotRolledBack ==
    [][FailedAfterPlacing =>
           /\ UNCHANGED db_vars
           /\ \A p \in last'.moved :
                  /\ host'[Dest(p)] = last'.name
                  /\ (\A r \in Rows(package_files) : r.filepath # Dest(p))
                         => \A r \in Rows(package_files') : r.filepath # Dest(p)]_vars

\* a failed call left a file of its package over another package's, owned by no row
WitPlacementNotRolledBack ==
    /\ last.op = "install"
    /\ last.err = DbError
    /\ last.calls = 2
    /\ \E p \in last.moved :
           /\ host[Dest(p)] = last.name
           /\ \A r \in Rows(package_files) : r.filepath # Dest(p)
    /\ \E p \in AbsPaths : host[p] \notin {NoFile, last.name}

----------------------------------------------------------------------------
(* The Fetcher's claims, on the specification of one download_with_retry call *)

\* attempt i receives the whole body and the digest computed over it is the expected hash
Succeeds(i) == source[i].at = "none" /\ Sha256(source[i].body) = fetch_hash

\* attempt i receives the whole body and the digest computed over it differs from the
\* expected hash
DigestDiffers(i) == source[i].at = "none" /\ Sha256(source[i].body) # fetch_hash

\* the error of a failing attempt i: a failed request, a status that is not a success and
\* a failed stream are network errors, a failed create or write is an I/O error
AttemptError(i) ==
    CASE source[i].at \in {"send", "status", "stream"} -> NetworkError
      [] source[i].at \in {"create", "write"} -> IoError
      [] OTHER -> HashMismatch

\* the source fails exactly k times and then succeeds
FailsThenSucceeds(k) == Succeeds(k + 1) /\ \A i \in 1..k : ~Succeeds(i)

\* download_with_retry has returned
FetchReturned == pc = "fetched"

\* the call of download_with_retry is over: it has returned or the process has panicked
FetchEnded == pc \in {"fetched", "panicked"}

\* attempt i of download_inner has ended
AttemptOver(i) == attempt > i \/ (attempt = i /\ pc \notin {"create", "stream"})

(* C13 as stated: Fetcher retry bound. download_with_retry makes at most 3        *)
(* attempts; a source failing exactly k < 3 times and then succeeding yields      *)
(* success after k + 1 attempts; a source failing 3 times yields the error of the *)
(* third attempt; the wait after failed attempt i (i = 1, 2) is i seconds and     *)
(* there is no wait after the third failure.                                      *)
CexRetryBound ==
    /\ attempt <= 3
    /\ Len(waits) <= 2
    /\ \A i \in DOMAIN waits : waits[i] = i
    /\ FetchEnded =>
        /\ \A k \in 0..2 :
               FailsThenSucceeds(k) =>
                   /\ fetch_result = Ok
                   /\ attempt = k + 1
                   /\ waits = [i \in 1..k |-> i]
        /\ (\A i \in 1..3 : ~Succeeds(i)) =>
               /\ fetch_result = AttemptError(3)
               /\ attempt = 3
               /\ waits = <<1, 2>>

(* C14 as stated: Fetcher integrity. For a served body B and expected hash H,     *)
(* after fetch returns the destination file holds B if and only if                *)
(* SHA-256(B) = H; when the digest differs the fetch returns HashMismatch and B   *)
(* is not left at the destination path.                                           *)
CexFetchIntegrity ==
    (FetchReturned /\ source[attempt].at = "none") =>
        LET B == source[attempt].body IN
        /\ (tarball[fetch_path] = B) <=> (Sha256(B) = fetch_hash)
        /\ Sha256(B) # fetch_hash =>
               (fetch_result = HashMismatch /\ tarball[fetch_path] # B)

(* C15 as stated: HashMismatch is not retried. When an attempt ends with a digest *)
(* different from the recipe hash, the fetch fails at once with HashMismatch and  *)
(* makes no further attempt.                                                      *)
CexHashMismatchNotRetried ==
    \A i \in 1..attempt :
        (DigestDiffers(i) /\ AttemptOver(i)) =>
            /\ FetchReturned
            /\ attempt = i
            /\ fetch_result = HashMismatch

(* C15, amended: HashMismatch is retried like every other error of an attempt.    *)
(* When an attempt before the third ends with a digest different from the recipe  *)
(* hash, the fetch does not return at that attempt but sleeps for a further one;  *)
(* it fails with HashMismatch only when the third attempt ends with a differing   *)
(* digest. The digest is the one computed over the chunks received, whatever the  *)
(* writes have left in the file.                                                  *)
InvHashMismatchRetried ==
    /\ \A i \in 1..attempt :
           (DigestDiffers(i) /\ AttemptOver(i)) =>
               IF i < 3
               THEN /\ ~(FetchEnded /\ attempt = i)
                    /\ Len(waits) >= IF attempt = i THEN i - 1 ELSE i
               ELSE FetchReturned /\ fetch_result = HashMismatch
    /\ fetch_result = HashMismatch => (attempt = 3 /\ DigestDiffers(3))

\* a differing digest at the first attempt, and the fetch succeeded at a later one
WitHashMismatchRetried ==
    /\ FetchReturned
    /\ DigestDiffers(1)
    /\ source[1].last = "lost"
    /\ fetch_result = Ok
    /\ attempt > 1

----------------------------------------------------------------------------
(* The claims on the pipeline with its downloads, and on the upgrade command *)

\* the server of the download under way, or of the download the command ended in, serves
\* at every attempt a whole body whose digest differs from the recipe's sha256_sum
AlwaysBad == source # <<>> /\ \A i \in DOMAIN source : DigestDiffers(i)

\* the package of that download
Fetched == build_order[idx]

RowsOf(db, name) ==
    {r \in Rows(db.packages) : r.name = name}
        \cup {r \in Rows(db.package_files) : r.package_name = name}
        \cup {r \in Rows(db.dependencies) : r.package = name}

(* C16: Hash-mismatch scenario. When the server always serves bytes whose SHA-256 *)
(* differs from the recipe's sha256_sum, installing that package fails with       *)
(* HashMismatch after exactly 3 download attempts, and no packages, package_files *)
(* or dependencies row is written for it.                                         *)
PropHashMismatchScenario ==
    [][(AlwaysBad' \/ (AlwaysBad /\ pc \in {"fetch", "create", "stream", "sleep",
                                            "fetched"})) =>
           /\ UNCHANGED <<db_vars, fs_vars, last>>
           /\ pc' \in {"fetch", "create", "stream", "sleep", "fetched", "failed"}
           /\ attempt' <= 3
           /\ pc' \in {"fetched", "failed"} =>
                  (attempt' = 3 /\ fetch_result' = HashMismatch)
           /\ pc' = "failed" =>
                  /\ result' = HashMismatch
                  /\ Fetched' \notin run_installed']_vars

\* the second package of an install that names it after the first met the always-bad
\* server: the install failed with HashMismatch at the third attempt, the first package
\* is installed, the second has no row
WitHashMismatchScenario ==
    /\ pc = "failed"
    /\ cmd = "install"
    /\ AlwaysBad
    /\ result = HashMismatch
    /\ attempt = 3
    /\ waits = <<1, 2>>
    /\ targets = <<"C", "B">>
    /\ Fetched = "B"
    /\ "C" \in run_installed
    /\ RowsOf(DB, "C") # {}
    /\ RowsOf(DB, "B") = {}

InstalledVersion(db, name) ==
    (CHOOSE r \in Rows(db.packages) : r.name = name).version

\* the installed packages with a recipe in rs whose version is strictly greater
NewerRecipe(db, rs) ==
    {n \in Installed(db) :
        /\ n \in DOMAIN rs
        /\ VersionGreater(rs[n].version, InstalledVersion(db, n))}

\* the command has loaded its recipes: the set-up, list_installed and the load succeeded
Loaded == recipes # <<>>

(* C17: Upgrade selection. The upgrade command selects as targets exactly the     *)
(* installed packages that have a recipe whose version is strictly greater than   *)
(* the installed version; packages with an equal or lower recipe version, or with *)
(* no recipe, are not selected; after a successful upgrade the packages row of    *)
(* every selected package carries the recipe's version; when nothing is selected  *)
(* no build or install is performed.                                              *)
PropUpgradeSelection ==
    [][cmd' = "upgrade" =>
           /\ cmds' # cmds =>
                  /\ Range(targets') = NewerRecipe(DB, recipes')
                  /\ Len(targets') = Cardinality(NewerRecipe(DB, recipes'))
                  /\ UNCHANGED <<db_vars, fs_vars>>
                  /\ last' = NoCall
           /\ targets' = <<>> =>
                  /\ pc' = IF Loaded' THEN "done" ELSE "failed"
                  /\ run_built' = <<>>
                  /\ run_installed' = {}
                  /\ script_runs' = <<>>
                  /\ last' = NoCall
           /\ pc' = "done" =>
                  \A n \in Range(targets') :
                      /\ n \in Installed(DB')
                      /\ InstalledVersion(DB', n) = recipes'[n].version]_vars

\* an upgrade that selected some installed packages and not others has completed
WitUpgradeSelection ==
    /\ cmd = "upgrade"
    /\ pc = "done"
    /\ targets # <<>>
    /\ Installed(DB) \ Range(targets) # {}
    /\ \A n \in Range(targets) : InstalledVersion(DB, n) = recipes[n].version

(* C18 as stated: DependencyError means no partial install. Whenever an install   *)
(* or upgrade invocation ends with an error of kind DependencyError, no package   *)
(* of that invocation has been installed.                                         *)
CexDependencyErrorNoPartialInstall ==
    (/\ pc = "failed"
     /\ cmd \in {"install", "upgrade"}
     /\ result.kind = "DependencyError") => run_installed = {}

\* the first k names of the build order
Built(k) == [i \in 1..k |-> build_order[i]]

\* execute is in its loop over the build order, or has left it
InLoop == cmd \in {"install", "upgrade"} /\ run_built # <<>>

\* the packages built and installed so far are the build order's, in sequence
Sequential ==
    InLoop =>
        /\ idx \in 1..(Len(build_order) + 1)
        /\ pc \in {"loop", "building", "fetch", "create", "stream", "sleep", "fetched",
                   "install", "failed", "panicked", "done"}
        /\ pc \in {"building", "fetch", "create", "stream", "sleep", "fetched",
                   "install", "failed", "panicked"} =>
               /\ run_built = Built(idx)
               /\ run_installed = {build_order[i] : i \in 1..(idx - 1)}
        /\ pc \in {"loop", "done"} =>
               /\ run_built = Built(idx - 1)
               /\ run_installed = Range(run_built)
        /\ pc = "done" => idx = Len(build_order) + 1
        /\ (pc \in {"failed", "panicked"}) <=> (result # Ok)
        /\ \A n \in run_installed :
               n \in Installed(DB) /\ InstalledVersion(DB, n) = recipes[n].version

\* Builder::build ends in this step without an artifact
BuildFails ==
    /\ pc \in {"building", "fetch", "create", "stream", "fetched"}
    /\ pc' \in {"failed", "panicked"}

(* C19 as stated: Sequential pipeline with stop at first failure. execute         *)
(* processes the build order strictly in sequence as build(P) then                *)
(* install_package(P); if build or install of the k-th package fails (a build     *)
(* script exiting non-zero included), execute returns that error, install_package *)
(* is not called for the k-th package after a failed build, no later package is   *)
(* built or installed, and the packages before k remain committed in the metadata *)
(* store.                                                                         *)
CexSequentialStop ==
    [][/\ Sequential'
       /\ BuildFails =>
              /\ UNCHANGED <<db_vars, fs_vars, last>>
              /\ pc' = "failed"
              /\ result' \in BuildErrors \cup {NetworkError, HashMismatch}
       /\ (InLoop /\ pc = "install" /\ pc' # "install") =>
              /\ last'.op = "install"
              /\ last'.name = build_order[idx]
              /\ last'.calls = last.calls + 1
              /\ pc' = IF last'.err = Ok THEN "loop" ELSE "failed"
              /\ pc' = "failed" => result' = last'.err
       /\ (InLoop /\ pc \in {"failed", "panicked"}) =>
              \/ cmds' = cmds + 1
              \/ UNCHANGED <<pc, result, run_built, run_installed, db_vars, fs_vars,
                             last>>]_vars

----------------------------------------------------------------------------
(* The claims on Builder::build and on what install_package leaves behind *)

\* this step starts the build script, on the source it has unpacked
ScriptStarts == Len(script_runs') > Len(script_runs)

\* the last attempt of download_with_retry ends in this step, and it does not succeed
LastAttemptFails ==
    /\ pc \in {"fetch", "create", "stream"}
    /\ pc' \notin {"fetch", "create", "stream", "sleep"}
    /\ ~Succeeds(attempt')

\* Builder::build returns in this step, after download_with_retry has
BuildReturns == pc = "fetched" /\ pc' # "fetched"

(* C21 as stated: Hash gate before execution. In every run of Builder::build the  *)
(* source is unpacked and the build script is started only after a download       *)
(* attempt whose computed SHA-256 equals the recipe's sha256_sum has completed;   *)
(* if all attempts fail or mismatch, build returns the error and neither runs.    *)
CexHashGate ==
    [][/\ ScriptStarts =>
              /\ pc = "fetched"
              /\ fetch_result = Ok
              /\ Succeeds(attempt)
              /\ fetch_hash = recipes[build_order[idx]].sha256_sum
              /\ script_runs' = Append(script_runs, build_order[idx])
       /\ LastAttemptFails =>
              /\ pc' = "fetched"
              /\ fetch_result' = AttemptError(attempt')
       /\ (BuildReturns /\ fetch_result # Ok) =>
              /\ ~ScriptStarts
              /\ pc' = "failed"
              /\ result' = fetch_result
       /\ ~BuildReturns => ~ScriptStarts
       /\ (BuildReturns /\ fetch_result = Ok /\ ~ScriptStarts) =>
              /\ pc' = "failed"
              /\ result' = IoError
       /\ (BuildReturns
           /\ (pc' = "install" \/ result' = DependencyError("Build script failed", ""))) =>
              ScriptStarts]_vars

----------------------------------------------------------------------------
(* The claim on the confinement of the build script *)

\* the directories of the claim's list that the host has, in the list's order
RECURSIVE ExistingIn(_, _)
ExistingIn(dirs, have) ==
    IF dirs = <<>> THEN <<>>
    ELSE (IF Head(dirs) \in have THEN <<Head(dirs)>> ELSE <<>>)
             \o ExistingIn(Tail(dirs), have)

\* the fixed order of the setup, up to and with the exec
SetupOrder(env) ==
    <<"unshare", "private">>
        \o (IF env.proc THEN <<"proc">> ELSE <<>>)
        \o ExistingIn(<<"/bin", "/usr", "/lib", "/lib64", "/dev", "/etc">>, env.dirs)
        \o <<"chroot", "chdir", "exec">>

IsPrefix(a, b) == Len(a) <= Len(b) /\ \A i \in DOMAIN a : a[i] = b[i]

Executed == \E i \in DOMAIN sb_steps : sb_steps[i] = "exec"

\* a setup call of this run fails
SetupFails ==
    \E i \in 1..(Len(SetupOrder(sb_env)) - 1) : SetupOrder(sb_env)[i] = sb_env.fault

(* C22: Sandbox setup order and confinement. In the child the steps run in the    *)
(* fixed order unshare, make / private, mount proc if <root>/proc exists, bind    *)
(* mount each existing host directory of /bin, /usr, /lib, /lib64, /dev, /etc in  *)
(* that order, chroot, chdir("/"), and only then the exec of the script; if any   *)
(* of the unshare, mount, chroot or chdir steps fails, the script is never        *)
(* executed and run returns an error.                                             *)
InvSandboxOrder ==
    /\ IsPrefix(sb_steps, SetupOrder(sb_env))
    /\ Executed =>
           /\ sb_steps = SetupOrder(sb_env)
           /\ sb_root = "jail"
           /\ sb_cwd = "/"
    /\ sb_pc = "returned" =>
           /\ sb_result # Pending
           /\ SetupFails => (~Executed /\ sb_result = IoError)
           /\ sb_result \in {Ok, DependencyError("Build script failed", "")} => Executed

\* a run whose chroot failed after the mounts: run returned the error, no script ran
WitSandboxOrder ==
    /\ sb_pc = "returned"
    /\ sb_env.fault = "chroot"
    /\ sb_env.proc
    /\ sb_env.dirs # {}
    /\ Len(sb_steps) >= 4
    /\ ~Executed
    /\ sb_root = "host"
    /\ sb_result = IoError

----------------------------------------------------------------------------
(* The claims on what a later install_package does to an earlier one *)

\* the names the dependencies rows of a package point to
StoredEdges(db, name) ==
    {r.depends_on : r \in {x \in Rows(db.dependencies) : x.package = name}}

\* the dependency names a recipe lists
ListedDeps(recipe) == {recipe.dependencies[i][1] : i \in DOMAIN recipe.dependencies}

(* C23 as stated: Stored edges are the dependency graph at install time. After    *)
(* every successful install_package(R), a re-install with a different dependency  *)
(* list included, the dependencies rows with package = R.name are exactly the     *)
(* dependency names listed in R; so remove_package(Q) is refused only when some   *)
(* installed package's currently installed recipe depends on Q.                   *)
CexStoredEdgesAreRecipe ==
    /\ (last.op = "install" /\ last.err = Ok) =>
           StoredEdges(DB, last.name) = ListedDeps(last.recipe)
    /\ \A q \in TMNames :
           remove_blockers(DB, q) # {} =>
               \E p \in Installed(DB) : q \in installed_with[p]

FileRow(name, p) == [package_name |-> name, filepath |-> Dest(p)]

\* the step is a successful install_package of a package that places the path p, which
\* the installed package P has recorded
InstallsOver(P, p) ==
    /\ InstallStep
    /\ last'.err = Ok
    /\ P # last'.name
    /\ p \in last'.moved
    /\ HasPackage(DB, P)
    /\ Copies(package_files, FileRow(P, p)) = 1

\* remove_package(Q) on the state after the step, in every outcome that returns Ok,
\* keeps P's row; it deletes the file when remove_file works, and the file is still
\* Q's when remove_file fails
RemoveLeavesRow(P, Q, p) ==
    \A f \in RemoveFaults :
        LET fs3 == remove_host(FS', DB', Q, f)
            db3 == remove_db(DB', Q, f)
        IN remove_error(DB', Q, f) = Ok =>
               /\ fs3.host[Dest(p)] = IF Dest(p) \in f.stuck THEN Q ELSE NoFile
               /\ HasPackage(db3, P)
               /\ Copies(db3.package_files, FileRow(P, p)) = 1
               /\ Copies(db3.package_files, FileRow(Q, p)) = 0

(* C24: Overwrite without conflict detection. When package P has installed a path *)
(* x and package Q is later installed with the same path, install_package(Q)      *)
(* succeeds, the host file at x is Q's and both rows (P, x) and (Q, x) are in     *)
(* package_files; a following remove_package(Q) deletes the file at x while the   *)
(* row (P, x) remains: a recorded file of an installed package can be absent. The *)
(* row (P, x) remains in every outcome of the removal that returns Ok, and the    *)
(* file is absent in each of them in which remove_file(x) works.                  *)
PropOverwriteNoConflict ==
    [][\A P \in TMNames, p \in RelPaths :
           InstallsOver(P, p) =>
               /\ host'[Dest(p)] = last'.name
               /\ Copies(package_files', FileRow(P, p)) = 1
               /\ Copies(package_files', FileRow(last'.name, p)) = 1
               /\ RemoveLeavesRow(P, last'.name, p)]_vars

\* Q was installed over a path of the installed P, and removing Q now would leave P's
\* recorded file absent
WitOverwriteNoConflict ==
    /\ last.op = "install"
    /\ last.err = Ok
    /\ last.calls = 2
    /\ \E P \in TMNames \ {last.name}, p \in last.moved :
           /\ HasPackage(DB, P)
           /\ Copies(package_files, FileRow(P, p)) = 1
           /\ Copies(package_files, FileRow(last.name, p)) = 1
           /\ host[Dest(p)] = last.name
           /\ remove_error(DB, last.name, NoFault) = Ok
           /\ remove_host(FS, DB, last.name, NoFault).host[Dest(p)] = NoFile
           /\ Copies(remove_db(DB, last.name, NoFault).package_files, FileRow(P, p)) = 1

\* the package_files rows the step adds
NewFileRows == Rows(package_files') \ Rows(package_files)

\* the step places and records files of its own artifact tree only
OnlyOwnFiles ==
    /\ last'.moved \subseteq RegularFiles(last'.tree)
    /\ \A p \in AbsPaths :
           host'[p] # host[p] => \E q \in RegularFiles(last'.tree) : p = Dest(q)
    /\ NewFileRows \subseteq {FileRow(last'.name, q) : q \in RegularFiles(last'.tree)}

StageExists(stg, recipe) == StageKey(recipe) \in DOMAIN stg

(* C25 as stated: Staging lifecycle. install_package starts by deleting any       *)
(* existing staging directory <staging>/<name>_<version> and creating it empty,   *)
(* so files left there by an earlier failed install are never placed or recorded  *)
(* by a later install; after a successful commit the staging directory no longer  *)
(* exists, and after a failed install it is left behind.                          *)
CexStagingLeftBehind ==
    [][InstallStep =>
           /\ OnlyOwnFiles
           /\ last'.err = Ok => ~StageExists(staging', last'.recipe)
           /\ last'.err # Ok => StageExists(staging', last'.recipe)]_vars

\* the staging directory of the call exists and holds entries of its artifact only
StagedThisCall ==
    /\ StageExists(staging', last'.recipe)
    /\ staging'[StageKey(last'.recipe)] \subseteq last'.tree

\* the entries of the artifact of the call that the walk does not move
NotMoved == {e \in last'.tree : e.kind # "file" \/ e.path \notin last'.moved}

\* the call failed at the removal of the old staging directory: the directory is
\* still there with what the removal left of it, and nothing else has changed
OldStageLeft ==
    /\ StageExists(staging, last'.recipe)
    /\ StageExists(staging', last'.recipe)
    /\ staging'[StageKey(last'.recipe)] \subseteq staging[StageKey(last'.recipe)]
    /\ last'.err = IoError
    /\ UNCHANGED <<db_vars, host, host_dirs>>

(* C25, amended: install_package starts by deleting any existing staging          *)
(* directory <staging>/<name>_<version> and creating it empty, so files left      *)
(* there by an earlier failed install are never placed or recorded by a later     *)
(* install; after a successful commit the staging directory no longer exists, or  *)
(* its removal failed, which is ignored, and it holds entries of this call's      *)
(* artifact only; after an install that fails in the walk, in an SQL statement or *)
(* in the commit it is left behind with the entries of this call not yet moved    *)
(* and no entry of an earlier install, after one that fails in the copy to        *)
(* staging it holds entries of this call only, while a failure of begin leaves    *)
(* the staging root, the tables and the host as they were, a failure of the       *)
(* removal of the old directory leaves that directory with what was not yet       *)
(* removed and a failure of the creation leaves no directory.                     *)
PropStagingLifecycle ==
    [][InstallStep =>
           /\ OnlyOwnFiles
           /\ last'.err = Ok =>
                  \/ ~StageExists(staging', last'.recipe)
                  \/ StagedThisCall
           /\ last'.err # Ok =>
                  \/ /\ StagedThisCall
                     /\ \/ NotMoved \subseteq staging'[StageKey(last'.recipe)]
                        \/ last'.err = IoError /\ last'.moved = {}
                                               /\ UNCHANGED <<db_vars, host>>
                  \/ /\ staging' = staging
                     /\ last'.err = DbError
                     /\ UNCHANGED <<db_vars, host, host_dirs>>
                  \/ OldStageLeft
                  \/ /\ ~StageExists(staging', last'.recipe)
                     /\ last'.err = IoError
                     /\ UNCHANGED <<db_vars, host, host_dirs>>]_vars

\* an install succeeded although the staging directory held a file of an earlier failed
\* install that is not in its artifact: the file was not placed, the directory is gone
WitStagingLifecycle ==
    /\ last.op = "install"
    /\ last.err = Ok
    /\ last.calls = 2
    /\ ~StageExists(staging, last.recipe)
    /\ \E p \in RegularFiles(last.stale) \ RegularFiles(last.tree) :
           /\ host[Dest(p)] = NoFile
           /\ Copies(package_files, FileRow(last.name, p)) = 0

\* the paths the package_files rows of a package name
RecordedPaths(db, name) ==
    {r.filepath : r \in {x \in Rows(db.package_files) : x.package_name = name}}

(* C26 as stated: File rows match the current install. After every successful     *)
(* install_package(R), an upgrade whose artifact tree no longer contains some     *)
(* previously installed path included, the package_files rows for R.name are      *)
(* exactly the destination paths placed by this install; no row and no host file  *)
(* from the earlier version of the package remains.                               *)
CexFileRowsMatchInstall ==
    (last.op = "install" /\ last.err = Ok) =>
        /\ RecordedPaths(DB, last.name) = {Dest(p) : p \in last.moved}
        /\ \A p \in AbsPaths :
               host[p] = last.name => \E q \in last.moved : p = Dest(q)

----------------------------------------------------------------------------
(* The claim on what execute builds *)

\* execute is running or has returned
Executing == cmd \in {"install", "upgrade"} /\ pc \notin {"idle", "start"}

\* the sequence a run builds, as a function of the target list and the recipe set
BuildSequence(tgts, rs) ==
    IF ValidInput(rs, tgts) THEN PostOrder(rs, tgts, {}) ELSE <<>>

(* C27: Build set is independent of installed state. The sequence of packages     *)
(* built and installed by Reactor::execute is a function of the target list and   *)
(* the recipe set only: whatever the metadata store holds when the command        *)
(* starts, the packages are built in the depth-first post-order of the targets    *)
(* over the recipes, which is the whole sequence once execute returns Ok, and     *)
(* every package built is installed by the run however it was installed before;   *)
(* so a dependency already installed at the recipe's version is built and         *)
(* installed again, on install and on upgrade.                                    *)
InvBuildSetIndependent ==
    Executing =>
        /\ IsPrefix(run_built, BuildSequence(targets, recipes))
        /\ run_installed \subseteq Range(run_built)
        /\ pc \in {"loop", "done"} => run_installed = Range(run_built)
        /\ pc = "done" => run_built = BuildSequence(targets, recipes)

\* the second command builds a dependency that an earlier command installed at the
\* version of its recipe
WitBuildSetIndependent ==
    /\ cmds = 2
    /\ cmd \in {"install", "upgrade"}
    /\ pc = "building"
    /\ build_order[idx] \notin Range(targets)
    /\ build_order[idx] \notin run_installed
    /\ HasPackage(DB, build_order[idx])
    /\ InstalledVersion(DB, build_order[idx]) = recipes[build_order[idx]].version
====
